---------------------------- MODULE Spec2Model ----------------------------
(***************************************************************************)
(* Model of altstory/go-data: the Data container (a map[string]interface{} *)
(* tree), dot-path addressing (Query/Get/Delete), deep merge (Merge,       *)
(* MergeTo), patches (Patch.Apply, Patch.ApplyTo) and the <json> codec.    *)
(*                                                                         *)
(* Go maps and slices are references.  The model keeps an explicit heap:   *)
(* heap.m[i] is the content of map object i, heap.s[j] is the backing      *)
(* array j of slices; a slice value is a header (array, len) and the       *)
(* capacity of a slice is the length of its backing array.                 *)
(*                                                                         *)
(* A Go string is a sequence of one-character strings, so that             *)
(* strings.Split, strconv.ParseInt and sort.Strings are computed.          *)
(***************************************************************************)
EXTENDS Integers, Sequences, FiniteSets, TLC

VARIABLES heap, a, b, r, patch, st, op, log, step, wire, calls

vars == <<heap, a, b, r, patch, st, op, log, step, wire, calls>>

-----------------------------------------------------------------------------
(* Strings                                                                 *)

\* byte value of a character, the order of Go's string comparison
Code(c) ==
  CASE c = "+" -> 43 [] c = "-" -> 45 [] c = "." -> 46
    [] c = "0" -> 48 [] c = "1" -> 49 [] c = "2" -> 50 [] c = "3" -> 51
    [] c = "<" -> 60 [] c = ">" -> 62
    [] c = "a" -> 97 [] c = "b" -> 98 [] c = "c" -> 99
    [] c = "j" -> 106 [] c = "n" -> 110 [] c = "o" -> 111 [] c = "s" -> 115
    [] OTHER -> 120

IsDigit(c) == c \in {"0", "1", "2", "3"}

DigitVal(c) == Code(c) - 48

\* Go's s < t on strings: bytewise lexicographic
RECURSIVE StrLess(_, _)
StrLess(s, t) ==
  IF t = <<>> THEN FALSE
  ELSE IF s = <<>> THEN TRUE
  ELSE IF Code(Head(s)) # Code(Head(t)) THEN Code(Head(s)) < Code(Head(t))
  ELSE StrLess(Tail(s), Tail(t))

\* index of the first "." of s, 0 when there is none
DotIndex(s) ==
  IF \E i \in 1..Len(s) : s[i] = "."
  THEN CHOOSE i \in 1..Len(s) : s[i] = "." /\ \A j \in 1..(i-1) : s[j] # "."
  ELSE 0

\* strings.Split(s, "."): Split("") is one empty field
RECURSIVE Split(_)
Split(s) ==
  LET i == DotIndex(s) IN
  IF i = 0 THEN <<s>>
  ELSE <<SubSeq(s, 1, i - 1)>> \o Split(SubSeq(s, i + 1, Len(s)))

\* strings.Join(fields, ".")
RECURSIVE Join(_)
Join(fields) ==
  IF fields = <<>> THEN <<>>
  ELSE IF Len(fields) = 1 THEN fields[1]
  ELSE fields[1] \o <<".">> \o Join(Tail(fields))

RECURSIVE DigitsVal(_, _)
DigitsVal(s, acc) ==
  IF s = <<>> THEN acc ELSE DigitsVal(Tail(s), 10 * acc + DigitVal(Head(s)))

\* strconv.ParseInt(f, 10, 64): an optional sign, then one or more digits
ParseInt(f) ==
  LET signed == f # <<>> /\ Head(f) \in {"+", "-"}
      ds     == IF signed THEN Tail(f) ELSE f
      ok     == ds # <<>> /\ \A i \in 1..Len(ds) : IsDigit(ds[i])
  IN  IF ~ok THEN [ok |-> FALSE, n |-> 0]
      ELSE [ok |-> TRUE,
            n  |-> IF signed /\ Head(f) = "-" THEN 0 - DigitsVal(ds, 0)
                   ELSE DigitsVal(ds, 0)]

-----------------------------------------------------------------------------
(* Values of a Data tree (interface{} values) and reflect.Value            *)

\* reflect types are sequences: <<"int64">>, <<"map">> (RawData),
\* <<"[]", "int64">> ([]int64), <<"[]", "iface">> ([]interface{})
MkVal(k, v, et, id, len) == [k |-> k, v |-> v, et |-> et, id |-> id, len |-> len]

\* the nil interface value (Null)
Nil == MkVal("nil", 0, <<>>, 0, 0)

\* the zero reflect.Value
Invalid == MkVal("invalid", 0, <<>>, 0, 0)

ScalarKinds == {"bool", "int64", "uint64", "float64", "string"}

Scalar(k, v) == MkVal(k, v, <<>>, 0, 0)

\* a RawData value; id 0 is the nil map
MapRef(id) == MkVal("map", 0, <<>>, id, 0)

\* a slice header of element type et over backing array id
SliceHdr(et, id, len) == MkVal("slice", 0, et, id, len)

\* reflect.Value.Type()
TypeOf(v) == IF v.k = "slice" THEN <<"[]">> \o v.et ELSE <<v.k>>

EmptyHeap == [m |-> <<>>, s |-> <<>>]

\* an enumeration of a finite set, the order a loop visits it in
RECURSIVE SetToSeq(_)
SetToSeq(S) ==
  IF S = {} THEN <<>>
  ELSE LET x == CHOOSE y \in S : TRUE IN <<x>> \o SetToSeq(S \ {x})

-----------------------------------------------------------------------------
(* Structural view of a value: what reflect.DeepEqual compares.  A nil map *)
(* and an empty map have the same view.                                    *)

Tree(k, v, et, f, e) == [k |-> k, v |-> v, et |-> et, f |-> f, e |-> e]

TNil == Tree("nil", 0, <<>>, <<>>, <<>>)
TScalar(k, v) == Tree(k, v, <<>>, <<>>, <<>>)
TMap(f) == Tree("map", 0, <<>>, f, <<>>)
TSlice(et, e) == Tree("slice", 0, et, <<>>, e)
TEmpty == TMap(<<>>)

RECURSIVE Abs(_, _)
Abs(h, v) ==
  CASE v.k = "map" ->
         IF v.id = 0 THEN TEmpty
         ELSE TMap([key \in DOMAIN h.m[v.id] |-> Abs(h, h.m[v.id][key])])
    [] v.k = "slice" ->
         TSlice(v.et, [i \in 1..v.len |-> Abs(h, h.s[v.id][i])])
    [] OTHER -> Tree(v.k, v.v, <<>>, <<>>, <<>>)

-----------------------------------------------------------------------------
(* Construction of a canonical tree on the heap: the result of Make on a   *)
(* map whose values are already of the canonical kinds.  Slices are made   *)
(* with reflect.MakeSlice(t, l, l), nested maps with RawData{}.            *)
(* An operator that needs the result of a call more than once takes it as  *)
(* a parameter of a second operator.                                       *)

\* the position of x in the sequence s
IndexOf(s, x) == CHOOSE i \in 1..Len(s) : s[i] = x

\* a new map object holding vs[i] under keys[i]
AllocMap(keys, sub) ==
  [h |-> [sub.h EXCEPT !.m = Append(@, [key \in {keys[i] : i \in 1..Len(keys)} |->
                                          sub.vs[IndexOf(keys, key)]])],
   v |-> MapRef(Len(sub.h.m) + 1)]

\* a new backing array holding vs, and the slice over all of it
AllocSlice(et, sub) ==
  [h |-> [sub.h EXCEPT !.s = Append(@, sub.vs)],
   v |-> SliceHdr(et, Len(sub.h.s) + 1, Len(sub.vs))]

ConsResult(first, rest) == [h |-> rest.h, vs |-> <<first.v>> \o rest.vs]

RECURSIVE Build(_, _), BuildSeq(_, _), BuildRest(_, _), BuildMap(_, _, _)
Build(h, t) ==
  CASE t.k = "map" -> BuildMap(h, t, SetToSeq(DOMAIN t.f))
    [] t.k = "slice" -> AllocSlice(t.et, BuildSeq(h, t.e))
    [] OTHER -> [h |-> h, v |-> MkVal(t.k, t.v, <<>>, 0, 0)]

BuildMap(h, t, keys) ==
  AllocMap(keys, BuildSeq(h, [i \in 1..Len(keys) |-> t.f[keys[i]]]))

BuildSeq(h, ts) ==
  IF ts = <<>> THEN [h |-> h, vs |-> <<>>]
  ELSE BuildRest(Build(h, Head(ts)), Tail(ts))

BuildRest(first, ts) == ConsResult(first, BuildSeq(first.h, ts))

\* Make(m) / Encoder.Encode: a map of length 0 encodes to the nil RawData
Make(h, t) ==
  IF DOMAIN t.f = {} THEN [h |-> h, v |-> MapRef(0)] ELSE Build(h, t)

-----------------------------------------------------------------------------
(* Merge engine                                                            *)

\* the keys of map object id in the order a range loop visits them
KeysOf(h, id) == IF id = 0 THEN <<>> ELSE SetToSeq(DOMAIN h.m[id])

\* clone.Clone(v): a deep copy; maps and backing arrays are new objects
RECURSIVE Clone(_, _), CloneSeq(_, _), CloneRest(_, _), CloneMap(_, _, _)
Clone(h, v) ==
  CASE v.k = "map" /\ v.id # 0 -> CloneMap(h, v, KeysOf(h, v.id))
    [] v.k = "slice" -> AllocSlice(v.et, CloneSeq(h, SubSeq(h.s[v.id], 1, v.len)))
    [] OTHER -> [h |-> h, v |-> v]

CloneMap(h, v, keys) ==
  AllocMap(keys, CloneSeq(h, [i \in 1..Len(keys) |-> h.m[v.id][keys[i]]]))

CloneSeq(h, vs) ==
  IF vs = <<>> THEN [h |-> h, vs |-> <<>>]
  ELSE CloneRest(Clone(h, Head(vs)), Tail(vs))

CloneRest(first, vs) == ConsResult(first, CloneSeq(first.h, vs))

\* reflect.Value.MapIndex(key): the zero Value when the key is absent
MapIndex(h, id, key) ==
  IF id # 0 /\ key \in DOMAIN h.m[id] THEN h.m[id][key] ELSE Invalid

\* reflect.Value.SetMapIndex(key, elem) on a non-nil map: the zero Value
\* deletes the key
SetMapIndex(h, id, key, elem) ==
  IF elem = Invalid
  THEN [h EXCEPT !.m[id] = [x \in (DOMAIN @) \ {key} |-> @[x]]]
  ELSE [h EXCEPT !.m[id] = [x \in (DOMAIN @) \cup {key} |->
                              IF x = key THEN elem ELSE @[x]]]

\* reflect.AppendSlice(s, t): the elements of t are copied as they are (a
\* map or slice element keeps pointing at the same object); in place when
\* the capacity allows, else into a new backing array
AppendSlice(h, s, t) ==
  IF s.len + t.len <= Len(h.s[s.id])
  THEN [h |-> [h EXCEPT !.s[s.id] =
                 [i \in 1..Len(h.s[s.id]) |->
                    IF i > s.len /\ i <= s.len + t.len
                    THEN h.s[t.id][i - s.len] ELSE h.s[s.id][i]]],
        v |-> SliceHdr(s.et, s.id, s.len + t.len)]
  ELSE [h |-> [h EXCEPT !.s = Append(@, SubSeq(h.s[s.id], 1, s.len)
                                        \o SubSeq(h.s[t.id], 1, t.len))],
        v |-> SliceHdr(s.et, Len(h.s) + 1, s.len + t.len)]

\* a result [h, v] of a call that did not panic
NoPanic(res) == [h |-> res.h, v |-> res.v, p |-> FALSE]

\* reflect.MakeMap when the target map is nil
MakeMapIfNil(h, target) ==
  IF target.id = 0
  THEN [h |-> [h EXCEPT !.m = Append(@, <<>>)], v |-> MapRef(Len(h.m) + 1)]
  ELSE [h |-> h, v |-> target]

MergedInto(target, res) == [h |-> res.h, v |-> target, p |-> res.p]

\* mergeValue(target, v): the value to store; p is TRUE when the call panics
\* (target.Type() on the zero Value that Elem() gives for a nil interface)
RECURSIVE mergeValue(_, _, _), mergeValueMap(_, _), mergeMapKeys(_, _, _, _),
          mergeMapStore(_, _, _, _)
\* a mergeValue for which a nil v clears the entry
mergeValueNilClears(h, target, v) ==
  IF v = Nil THEN [h |-> h, v |-> Invalid, p |-> FALSE]
  ELSE IF target = Nil THEN [h |-> h, v |-> Invalid, p |-> TRUE]
  ELSE IF target # Invalid /\ TypeOf(target) = TypeOf(v) /\ target.k = "map"
  THEN mergeValueMap(MakeMapIfNil(h, target), v)
  ELSE IF target # Invalid /\ TypeOf(target) = TypeOf(v) /\ target.k = "slice"
  THEN NoPanic(AppendSlice(h, target, v))
  ELSE NoPanic(Clone(h, v))

mergeValue(h, target, v) ==
  IF v = Nil THEN [h |-> h, v |-> target, p |-> FALSE]
  ELSE IF target = Nil THEN [h |-> h, v |-> Invalid, p |-> TRUE]
  ELSE IF target # Invalid /\ TypeOf(target) = TypeOf(v) /\ target.k = "map"
  THEN mergeValueMap(MakeMapIfNil(h, target), v)
  ELSE IF target # Invalid /\ TypeOf(target) = TypeOf(v) /\ target.k = "slice"
  THEN NoPanic(AppendSlice(h, target, v))
  ELSE NoPanic(Clone(h, v))

\* the reflect.Map case of mergeValue
mergeValueMap(made, v) ==
  MergedInto(made.v, mergeMapKeys(made.h, made.v.id, v.id, KeysOf(made.h, v.id)))

\* the loop over the keys of the incoming map, in mergeValue and in merge
mergeMapKeys(h, tid, did, keys) ==
  IF keys = <<>> THEN [h |-> h, p |-> FALSE]
  ELSE mergeMapStore(tid, did, keys,
         mergeValue(h, MapIndex(h, tid, Head(keys)), h.m[did][Head(keys)]))

\* target.SetMapIndex(key, to): storing a value into the nil map panics
mergeMapStore(tid, did, keys, to) ==
  IF to.p \/ (tid = 0 /\ to.v # Invalid) THEN [h |-> to.h, p |-> TRUE]
  ELSE mergeMapKeys(IF tid = 0 THEN to.h
                    ELSE SetMapIndex(to.h, tid, Head(keys), to.v),
                    tid, did, Tail(keys))

\* merge(target, data, remaining...): data is the sequence of all sources
RECURSIVE merge(_, _, _), mergeRest(_, _, _)
merge(h, tid, data) ==
  IF data = <<>> THEN [h |-> h, p |-> FALSE]
  ELSE mergeRest(tid, data,
         mergeMapKeys(h, tid, Head(data).id, KeysOf(h, Head(data).id)))

\* a merge that stops after the first of the remaining sources
mergeRestOnce(tid, data, res) ==
  IF res.p \/ Len(data) = 1 THEN res
  ELSE mergeMapKeys(res.h, tid, data[2].id, KeysOf(res.h, data[2].id))

mergeRest(tid, data, res) ==
  IF res.p THEN res ELSE merge(res.h, tid, Tail(data))

\* Merge(data...): a new Data; emptyData (the nil map) for no input
Merge(h, data) ==
  IF data = <<>> THEN [h |-> h, v |-> MapRef(0), p |-> FALSE]
  ELSE MergedInto(MapRef(Len(h.m) + 1),
                  merge([h EXCEPT !.m = Append(@, <<>>)], Len(h.m) + 1, data))

\* MergeTo(target, data...)
MergeTo(h, target, data) == merge(h, target.id, data)

\* a copy of the handle alone, sharing every map and slice with d
ShallowClone(h, d) == [h |-> h, v |-> d, p |-> FALSE]

\* Data.Clone()
DataClone(h, d) == Merge(h, <<d>>)

-----------------------------------------------------------------------------
(* Path resolver: RawData.get with its modifier, Get, Query, Delete.       *)
(* A result carries h (the heap after the call), v or found (the value),   *)
(* p (the call panicked) and w (the map and array objects written to).     *)

MapObj(id) == <<"m", id>>
ArrObj(id) == <<"s", id>>

Res(h, v, p, w) == [h |-> h, v |-> v, p |-> p, w |-> w]
Found(h, v, p, w) == [h |-> h, found |-> v, p |-> p, w |-> w]

\* the reflect.Slice case of the modifier of RawData.delete: idx is the
\* parsed target; val.SetLen panics unless val is addressable
deleteFromSlice(h, val, addr, idx) ==
  IF ~idx.ok \/ idx.n < 0 \/ idx.n >= val.len THEN Res(h, val, FALSE, {})
  ELSE IF idx.n = val.len - 1
  THEN IF addr THEN Res(h, SliceHdr(val.et, val.id, val.len - 1), FALSE, {})
       ELSE Res(h, val, TRUE, {})
  ELSE Res([h EXCEPT !.s[val.id] =
              [j \in 1..Len(@) |->
                 IF j > idx.n /\ j < val.len THEN @[j + 1] ELSE @[j]]],
           SliceHdr(val.et, val.id, val.len - 1), FALSE, {ArrObj(val.id)})

\* a modifier that returns the zero Value when the key to delete is absent
deleteModifierAbsent(h, val, addr, target) ==
  IF target = <<>> \/ val = Nil THEN Res(h, Invalid, FALSE, {})
  ELSE IF val.k = "map"
  THEN IF MapIndex(h, val.id, target) = Invalid THEN Res(h, Invalid, FALSE, {})
       ELSE Res(SetMapIndex(h, val.id, target, Invalid), val, FALSE,
                {MapObj(val.id)})
  ELSE IF val.k = "slice" THEN deleteFromSlice(h, val, addr, ParseInt(target))
  ELSE Res(h, val, FALSE, {})

\* the modifier of RawData.delete applied to val; addr says val is an
\* addressable slice element of a concrete (non-interface) type
deleteModifier(h, val, addr, target) ==
  IF target = <<>> \/ val = Nil THEN Res(h, Invalid, FALSE, {})
  ELSE IF val.k = "map"
  THEN IF val.id = 0 THEN Res(h, val, FALSE, {})
       ELSE Res(SetMapIndex(h, val.id, target, Invalid), val, FALSE,
                {MapObj(val.id)})
  ELSE IF val.k = "slice" THEN deleteFromSlice(h, val, addr, ParseInt(target))
  ELSE Res(h, val, FALSE, {})

NoModifier == [on |-> FALSE, target |-> <<>>]
DeleteTarget(target) == [on |-> TRUE, target |-> target]

\* callModifier of get and the direct calls of modifier
applyModifier(h, mod, last, val, addr) ==
  IF mod.on /\ last THEN deleteModifier(h, val, addr, mod.target)
  ELSE Res(h, val, FALSE, {})

\* the for loop of RawData.get over the fields after the first one; val is
\* the current value with its interface wrappers removed
RECURSIVE getLoop(_, _, _, _, _), getLoopMap(_, _, _, _, _, _),
          getLoopMapSet(_, _, _, _, _), getLoopSlice(_, _, _, _, _, _),
          getLoopSliceSet(_, _, _, _, _, _)
getLoop(h, val, fields, mod, w) ==
  IF fields = <<>> THEN Found(h, val, FALSE, w)
  ELSE IF val.k = "map"
  THEN getLoopMap(h, val, fields, mod, w, MapIndex(h, val.id, Head(fields)))
  ELSE IF val.k = "slice"
  THEN getLoopSlice(h, val, fields, mod, w, ParseInt(Head(fields)))
  ELSE Found(h, Invalid, FALSE, w)

\* case reflect.Map with string keys: kv is val.MapIndex(f)
getLoopMap(h, val, fields, mod, w, kv) ==
  IF kv = Invalid THEN Found(h, Invalid, FALSE, w)
  ELSE getLoopMapSet(val, fields, mod, w,
                     applyModifier(h, mod, Len(fields) = 1, kv, FALSE))

\* val.SetMapIndex(idx, kv) with the modified kv, then the next field
getLoopMapSet(val, fields, mod, w, m) ==
  IF m.p THEN Found(m.h, Invalid, TRUE, w \cup m.w)
  ELSE IF m.v = Invalid
  THEN Found(SetMapIndex(m.h, val.id, Head(fields), m.v), Invalid, FALSE,
             w \cup m.w \cup {MapObj(val.id)})
  ELSE getLoop(SetMapIndex(m.h, val.id, Head(fields), m.v), m.v, Tail(fields),
               mod, w \cup m.w \cup {MapObj(val.id)})

\* a slice case that counts the elements from 1
getLoopSliceFromOne(h, val, fields, mod, w, n) ==
  IF ~n.ok \/ n.n < 1 \/ n.n > val.len THEN Found(h, Invalid, FALSE, w)
  ELSE getLoopSliceSet(val, fields, mod, w, n.n,
                       applyModifier(h, mod, Len(fields) = 1,
                                     h.s[val.id][n.n], val.et # <<"iface">>))

\* case reflect.Slice: n is the parsed field
getLoopSlice(h, val, fields, mod, w, n) ==
  IF ~n.ok \/ n.n < 0 \/ n.n >= val.len THEN Found(h, Invalid, FALSE, w)
  ELSE getLoopSliceSet(val, fields, mod, w, n.n + 1,
                       applyModifier(h, mod, Len(fields) = 1,
                                     h.s[val.id][n.n + 1], val.et # <<"iface">>))

\* kv.Set(callModifier(i, kv)): Set panics on the zero Value
getLoopSliceSet(val, fields, mod, w, i, m) ==
  IF m.p \/ m.v = Invalid THEN Found(m.h, Invalid, TRUE, w \cup m.w)
  ELSE getLoop([m.h EXCEPT !.s[val.id][i] = m.v], m.v, Tail(fields), mod,
               w \cup m.w \cup {ArrObj(val.id)})

\* the first field of RawData.get when it is also the last one: d[k] = val
\* or delete(d, k)
getFirstSet(d, k, m) ==
  IF m.p THEN Found(m.h, Invalid, TRUE, m.w)
  ELSE Found(SetMapIndex(m.h, d.id, k, m.v), m.v, FALSE, m.w \cup {MapObj(d.id)})

\* the first field of RawData.get: val is d[k]
getFirst(h, d, fields, mod, val) ==
  IF val = Invalid \/ val = Nil THEN Found(h, Invalid, FALSE, {})
  ELSE IF Len(fields) > 1 THEN getLoop(h, val, Tail(fields), mod, {})
  ELSE IF ~mod.on THEN Found(h, val, FALSE, {})
  ELSE getFirstSet(d, Head(fields), deleteModifier(h, val, FALSE, mod.target))

\* the modifier applied to d itself when there are no fields
getSelf(m) == Found(m.h, m.v, m.p, m.w)

\* RawData.get(fields, modifier)
get(h, d, fields, mod) ==
  IF fields = <<>> THEN getSelf(applyModifier(h, mod, TRUE, d, FALSE))
  ELSE getFirst(h, d, fields, mod, MapIndex(h, d.id, Head(fields)))

\* v.Interface() or nil of RawData.Get
GetResult(g) ==
  [v |-> IF g.found = Invalid THEN Nil ELSE g.found, w |-> g.w, h |-> g.h]

\* RawData.Get(fields...): nil when nothing is found
Get(h, d, fields) ==
  IF fields = <<>> THEN [v |-> d, w |-> {}, h |-> h]
  ELSE GetResult(get(h, d, fields, NoModifier))

\* a Query that does not split its argument
QueryUnsplit(h, d, query) ==
  IF query = <<>> THEN [v |-> d, w |-> {}, h |-> h] ELSE Get(h, d, <<query>>)

\* RawData.Query(query)
Query(h, d, query) ==
  IF query = <<>> THEN [v |-> d, w |-> {}, h |-> h] ELSE Get(h, d, Split(query))

\* the fields before the last one, and the last one, of a split query
deleteFields(h, d, fields) ==
  get(h, d, SubSeq(fields, 1, Len(fields) - 1), DeleteTarget(fields[Len(fields)]))

\* RawData.delete(query)
delete(h, d, query) == deleteFields(h, d, Split(query))

RECURSIVE deleteAll(_, _, _), deleteRest(_, _, _)
deleteAll(h, d, queries) ==
  IF queries = <<>> THEN [h |-> h, d |-> d, p |-> FALSE]
  ELSE deleteRest(d, queries, delete(h, d, Head(queries)))

deleteRest(d, queries, g) ==
  IF g.p THEN [h |-> g.h, d |-> d, p |-> TRUE]
  ELSE deleteAll(g.h, d, Tail(queries))

\* (*RawData).Delete(queries...): an empty query resets d to nil
Delete(h, d, queries) ==
  IF \E i \in 1..Len(queries) : queries[i] = <<>>
  THEN [h |-> h, d |-> MapRef(0), p |-> FALSE]
  ELSE deleteAll(h, d, queries)

-----------------------------------------------------------------------------
(* Patch engine.  A patch is a sequence of actions; an action is           *)
(* [Deletes: sequence of queries, Updates: function query -> Data].        *)
(* Every step of an application is recorded as an event                    *)
(* [act, kind, q, ds, pre, post, res]: the query of an update or the       *)
(* queries ds of a delete, with the structural view of the target before   *)
(* and after it.                                                           *)

Event(act, kind, q, ds, pre, post, res) ==
  [act |-> act, kind |-> kind, q |-> q, ds |-> ds, pre |-> pre, post |-> post,
   res |-> res]

Outcome(h, d, status, lg) == [h |-> h, d |-> d, st |-> status, log |-> lg]

\* insertion of a string into a sorted sequence of strings
RECURSIVE InsertSorted(_, _)
InsertSorted(q, sorted) ==
  IF sorted = <<>> THEN <<q>>
  ELSE IF StrLess(q, Head(sorted)) THEN <<q>> \o sorted
  ELSE <<Head(sorted)>> \o InsertSorted(q, Tail(sorted))

\* the queries left in the order the range loop produced them
Unsorted(queries) == queries

\* sort.Strings(queries)
RECURSIVE SortStrings(_)
SortStrings(queries) ==
  IF queries = <<>> THEN <<>>
  ELSE InsertSorted(Head(queries), SortStrings(Tail(queries)))

\* the update loop of PatchAction.ApplyTo over the sorted queries
RECURSIVE applyUpdates(_, _, _, _, _, _), applyUpdate(_, _, _, _, _, _, _, _),
          applyMerged(_, _, _, _, _, _, _)
applyUpdates(h, data, updates, queries, ai, lg) ==
  IF queries = <<>> THEN Outcome(h, data, "ok", lg)
  ELSE applyUpdate(h, data, updates, queries, ai, lg,
                   Query(h, data, Head(queries)).v, Abs(h, data))

\* the update step without its test of v == nil
applyUpdateNoNilTest(h, data, updates, queries, ai, lg, v, pre) ==
  IF v.k # "map"
  THEN Outcome(h, data, "err_type",
               Append(lg, Event(ai, "update", Head(queries), <<>>, pre, pre,
                                "err_type")))
  ELSE applyMerged(data, updates, queries, ai, lg, pre,
                   merge(h, v.id, <<updates[Head(queries)]>>))

\* v is data.Query(query), pre the view of the target before the update
applyUpdate(h, data, updates, queries, ai, lg, v, pre) ==
  IF v = Nil
  THEN Outcome(h, data, "err_query",
               Append(lg, Event(ai, "update", Head(queries), <<>>, pre, pre,
                                "err_query")))
  ELSE IF v.k # "map"
  THEN Outcome(h, data, "err_type",
               Append(lg, Event(ai, "update", Head(queries), <<>>, pre, pre,
                                "err_type")))
  ELSE applyMerged(data, updates, queries, ai, lg, pre,
                   merge(h, v.id, <<updates[Head(queries)]>>))

\* after merge(reflect.ValueOf(d), action.Updates[query].data)
applyMerged(data, updates, queries, ai, lg, pre, m) ==
  IF m.p
  THEN Outcome(m.h, data, "panic",
               Append(lg, Event(ai, "update", Head(queries), <<>>, pre,
                                Abs(m.h, data), "panic")))
  ELSE applyUpdates(m.h, data, updates, Tail(queries), ai,
                    Append(lg, Event(ai, "update", Head(queries), <<>>, pre,
                                     Abs(m.h, data), "ok")))

\* the update phase of PatchAction.ApplyTo; del is the result of Delete
ActionUpdates(action, order, ai, del, lg) ==
  IF del.p THEN Outcome(del.h, del.d, "panic", lg)
  ELSE IF DOMAIN action.Updates = {} THEN Outcome(del.h, del.d, "ok", lg)
  ELSE applyUpdates(del.h, del.d, action.Updates, SortStrings(order), ai, lg)

\* the delete phase: data.Delete(action.Deletes...); target.data = data
ActionDeleted(h, data, action, order, ai, lg, del) ==
  ActionUpdates(action, order, ai, del,
    Append(lg, Event(ai, "delete", <<>>, action.Deletes, Abs(h, data),
                     Abs(del.h, del.d), IF del.p THEN "panic" ELSE "ok")))

\* PatchAction.ApplyTo(target): order is the order in which the range over
\* action.Updates yields the queries
ActionApplyTo(h, data, action, order, ai, lg) ==
  ActionDeleted(h, data, action, order, ai, lg, Delete(h, data, action.Deletes))

\* Patch.ApplyTo(target): orders[i] is the iteration order of action i
RECURSIVE applyActions(_, _, _, _, _, _), applyNext(_, _, _, _)
applyActions(h, data, actions, orders, ai, lg) ==
  IF ai > Len(actions) THEN Outcome(h, data, "ok", lg)
  ELSE applyNext(actions, orders, ai,
                 ActionApplyTo(h, data, actions[ai], orders[ai], ai, lg))

\* an application that goes on with the later actions after an error and
\* reports the error at the end
applyNextKeepsGoing(actions, orders, ai, res) ==
  IF res.st = "panic" THEN res
  ELSE IF res.st # "ok"
  THEN [applyActions(res.h, res.d, actions, orders, ai + 1, res.log)
          EXCEPT !.st = res.st]
  ELSE applyActions(res.h, res.d, actions, orders, ai + 1, res.log)

applyNext(actions, orders, ai, res) ==
  IF res.st # "ok" THEN res
  ELSE applyActions(res.h, res.d, actions, orders, ai + 1, res.log)

Reverse(s) == [i \in 1..Len(s) |-> s[Len(s) + 1 - i]]

\* the actions walked from the last one added to the first
ApplyToReversed(h, target, actions, orders) ==
  applyActions(h, target, Reverse(actions), Reverse(orders), 1, <<>>)

PatchApplyTo(h, target, actions, orders) ==
  applyActions(h, target, actions, orders, 1, <<>>)

\* applied is the zero Data when ApplyTo returns an error
ApplyResult(res) ==
  IF res.st \in {"err_query", "err_type"} THEN [res EXCEPT !.d = MapRef(0)]
  ELSE res

\* Patch.Apply(d): c is d.Clone()
ApplyCloned(actions, orders, c) ==
  IF c.p THEN Outcome(c.h, MapRef(0), "panic", <<>>)
  ELSE ApplyResult(PatchApplyTo(c.h, c.v, actions, orders))

Apply(h, d, actions, orders) == ApplyCloned(actions, orders, DataClone(h, d))

-----------------------------------------------------------------------------
(* Codec: Data.String and Parse.  The stored form is the meta prefix       *)
(* "<json>" followed by a JSON text; the JSON text is kept as the value    *)
(* tree its tokens spell: a number token carries its numeric value (in     *)
(* halves) and nothing of the Go type it was written from.                 *)

JVal(k, n, f, e) == [k |-> k, n |-> n, f |-> f, e |-> e]

JNull == JVal("null", 0, <<>>, <<>>)
JBool(x) == JVal(IF x = 1 THEN "true" ELSE "false", 0, <<>>, <<>>)
JNumber(n) == JVal("number", n, <<>>, <<>>)
JString(x) == JVal("string", x, <<>>, <<>>)
JObject(f) == JVal("object", 0, f, <<>>)
JArray(e) == JVal("array", 0, <<>>, e)

\* a text that gjson.Valid rejects
JInvalid == JVal("invalid", 0, <<>>, <<>>)

dataMetaBegin == <<"<">>
dataTypeJSON == <<"j", "s", "o", "n">>
dataMetaEnd == <<">">>

\* json.Encoder.Encode(d.data): integers and floats are written as the
\* shortest decimal of their value, a nil map as null
RECURSIVE jsonEncode(_, _)
jsonEncode(h, v) ==
  CASE v.k = "map" ->
         IF v.id = 0 THEN JNull
         ELSE JObject([key \in DOMAIN h.m[v.id] |-> jsonEncode(h, h.m[v.id][key])])
    [] v.k = "slice" -> JArray([i \in 1..v.len |-> jsonEncode(h, h.s[v.id][i])])
    [] v.k = "bool" -> JBool(v.v)
    [] v.k \in {"int64", "uint64"} -> JNumber(2 * v.v)
    [] v.k = "float64" -> JNumber(v.v)
    [] v.k = "string" -> JString(v.v)
    [] OTHER -> JNull

\* Data.json(buf, false)
json(h, d) ==
  IF d.id = 0 \/ DOMAIN h.m[d.id] = {} THEN JObject(<<>>) ELSE jsonEncode(h, d)

\* Data.String()
String(h, d) ==
  [meta |-> dataMetaBegin \o dataTypeJSON \o dataMetaEnd, json |-> json(h, d)]

NilType == <<>>

Parsed(res, t) == [h |-> res.h, v |-> res.v, t |-> t, p |-> FALSE]
ParsePanic(h) == [h |-> h, v |-> Invalid, t |-> NilType, p |-> TRUE]

\* the element type parseJSONArray settles on for elements of types ts
RECURSIVE arrayElemType(_, _)
arrayElemType(elemType, ts) ==
  IF ts = <<>> THEN IF elemType = NilType THEN <<"iface">> ELSE elemType
  ELSE arrayElemType(IF elemType = NilType THEN Head(ts)
                     ELSE IF elemType # Head(ts) /\ elemType # <<"iface">>
                     THEN <<"iface">> ELSE elemType,
                     Tail(ts))

ParsedCons(first, rest) ==
  [h |-> rest.h, vs |-> <<first.v>> \o rest.vs, ts |-> <<first.t>> \o rest.ts,
   p |-> rest.p]

RECURSIVE parseJSONValue(_, _), parseJSONValues(_, _), parseJSONRest(_, _),
          parseJSONToRawData(_, _), parseJSONArray(_), parseJSONObject(_, _)
\* parseJSONValue(res): the value and its reflect type; null gives nil, nil
parseJSONValue(h, j) ==
  CASE j.k = "true" -> [h |-> h, v |-> Scalar("bool", 1), t |-> <<"bool">>, p |-> FALSE]
    [] j.k = "false" -> [h |-> h, v |-> Scalar("bool", 0), t |-> <<"bool">>, p |-> FALSE]
    [] j.k = "number" ->
         IF j.n % 2 = 0
         THEN [h |-> h, v |-> Scalar("int64", j.n \div 2), t |-> <<"int64">>, p |-> FALSE]
         ELSE [h |-> h, v |-> Scalar("float64", j.n), t |-> <<"float64">>, p |-> FALSE]
    [] j.k = "string" ->
         [h |-> h, v |-> Scalar("string", j.n), t |-> <<"string">>, p |-> FALSE]
    [] j.k = "object" -> parseJSONToRawData(h, j)
    [] j.k = "array" -> parseJSONArray(parseJSONValues(h, j.e))
    [] OTHER -> [h |-> h, v |-> Nil, t |-> NilType, p |-> FALSE]

\* the values of a sequence of JSON values, left to right
parseJSONValues(h, js) ==
  IF js = <<>> THEN [h |-> h, vs |-> <<>>, ts |-> <<>>, p |-> FALSE]
  ELSE parseJSONRest(parseJSONValue(h, Head(js)), Tail(js))

parseJSONRest(first, js) ==
  IF first.p THEN [h |-> first.h, vs |-> <<>>, ts |-> <<>>, p |-> TRUE]
  ELSE ParsedCons(first, parseJSONValues(first.h, js))

\* parseJSONToRawData(d, res) into a new RawData
parseJSONToRawData(h, j) ==
  parseJSONObject(SetToSeq(DOMAIN j.f),
                  parseJSONValues(h, [i \in 1..Cardinality(DOMAIN j.f) |->
                                        j.f[SetToSeq(DOMAIN j.f)[i]]]))

\* d[key.Str] = v for every key of the object
parseJSONObject(keys, sub) ==
  IF sub.p THEN ParsePanic(sub.h) ELSE Parsed(AllocMap(keys, sub), <<"map">>)

\* parseJSONArray(res): reflect.Append panics on the zero Value that
\* reflect.ValueOf(nil) is
parseJSONArray(sub) ==
  IF sub.p \/ \E i \in 1..Len(sub.vs) : sub.vs[i] = Nil THEN ParsePanic(sub.h)
  ELSE Parsed(AllocSlice(arrayElemType(NilType, sub.ts), sub),
              <<"[]">> \o arrayElemType(NilType, sub.ts))

ParseOutcome(h, d, status) == [h |-> h, d |-> d, st |-> status]

\* ParseJSON after gjson.Valid: raw is the parsed object
ParseJSONDone(raw) ==
  IF raw.p THEN ParseOutcome(raw.h, MapRef(0), "panic")
  ELSE IF DOMAIN raw.h.m[raw.v.id] = {} THEN ParseOutcome(raw.h, MapRef(0), "ok")
  ELSE ParseOutcome(raw.h, raw.v, "ok")

\* a ParseJSON that takes any valid JSON value and keeps only objects
ParseJSONAnyValue(h, j) ==
  IF j.k = "invalid" THEN ParseOutcome(h, MapRef(0), "err_json")
  ELSE IF j.k # "object" THEN ParseOutcome(h, MapRef(0), "ok")
  ELSE ParseJSONDone(parseJSONToRawData(h, j))

\* ParseJSON(str)
ParseJSON(h, j) ==
  IF j.k = "invalid" THEN ParseOutcome(h, MapRef(0), "err_json")
  ELSE IF j.k # "object" THEN ParseOutcome(h, MapRef(0), "err_object")
  ELSE ParseJSONDone(parseJSONToRawData(h, j))

\* strings.Index(str, dataMetaEnd), 0 when there is none
MetaEndIndex(str) ==
  IF \E i \in 1..Len(str) : str[i] = Head(dataMetaEnd)
  THEN CHOOSE i \in 1..Len(str) :
         str[i] = Head(dataMetaEnd) /\ \A j \in 1..(i - 1) : str[j] # Head(dataMetaEnd)
  ELSE 0

\* Parse after the test of the prefix: str is what follows dataMetaBegin
ParseTyped(h, str, j) ==
  IF MetaEndIndex(str) = 0 THEN ParseOutcome(h, MapRef(0), "err_format")
  ELSE IF SubSeq(str, 1, MetaEndIndex(str) - 1) = dataTypeJSON THEN ParseJSON(h, j)
  ELSE ParseOutcome(h, MapRef(0), "err_datatype")

\* Parse(str)
Parse(h, w) ==
  IF w.meta = <<>> \/ Head(w.meta) # Head(dataMetaBegin)
  THEN ParseOutcome(h, MapRef(0), "err_format")
  ELSE ParseTyped(h, Tail(w.meta), w.json)

-----------------------------------------------------------------------------
(* Inputs: canonical trees as Make produces them, queries and patches      *)

sA == <<"a">>
sB == <<"b">>
sC == <<"c">>

qRoot == <<>>
qA    == <<"a">>
qB    == <<"b">>
qAB   == <<"a", ".", "b">>
qBA   == <<"b", ".", "a">>
qA0   == <<"a", ".", "0">>
qA1   == <<"a", ".", "1">>
qA2   == <<"a", ".", "2">>
qA3   == <<"a", ".", "3">>
qABC  == <<"a", ".", "b", ".", "c">>
qA0B  == <<"a", ".", "0", ".", "b">>
qA00  == <<"a", ".", "0", ".", "0">>
qA01  == <<"a", ".", "0", ".", "1">>
qA10  == <<"a", ".", "1", ".", "0">>
qA1A  == <<"a", ".", "1", ".", "a">>
qA20  == <<"a", ".", "2", ".", "0">>
qA2B  == <<"a", ".", "2", ".", "b">>
qA2C  == <<"a", ".", "2", ".", "c">>

I64(n) == TScalar("int64", n)
U64(n) == TScalar("uint64", n)
\* a float64 holds a number of halves: F64(5) is 2.5, F64(4) is 2.0
F64(n) == TScalar("float64", n)
Str(n) == TScalar("string", n)
Bool(n) == TScalar("bool", n)

M1(k1, v1) == TMap([x \in {k1} |-> v1])
M2(k1, v1, k2, v2) == TMap([x \in {k1, k2} |-> IF x = k1 THEN v1 ELSE v2])

tInt64s  == <<"int64">>
tUint64s == <<"uint64">>
tObjects == <<"map">>
tIface   == <<"iface">>

Templates ==
  { TEmpty,
    M1(sA, I64(1)),
    M2(sA, Str(1), sB, TNil),
    M1(sA, M1(sB, I64(1))),
    M1(sA, M1(sB, TNil)),
    M1(sA, TSlice(tInt64s, <<I64(1), I64(2), I64(3)>>)),
    M1(sA, TSlice(tObjects, <<M1(sB, I64(1)), M1(sA, I64(2))>>)),
    M1(sA, TSlice(<<"[]", "int64">>,
                  <<TSlice(tInt64s, <<I64(1), I64(2)>>),
                    TSlice(tInt64s, <<I64(3), I64(4), I64(5)>>)>>)),
    M2(sA, TSlice(tUint64s, <<U64(1)>>), sB, U64(2)),
    M1(sA, TSlice(tIface, <<I64(1), TSlice(tInt64s, <<I64(7)>>)>>)),
    M2(sA, F64(5), sB, Bool(1)),
    M1(sA, M1(sB, TSlice(tInt64s, <<I64(9)>>))) }

NoUpdates == <<>>
PAction(deletes, updates) == [Deletes |-> deletes, Updates |-> updates]
U1(q1, t1) == [x \in {q1} |-> t1]
U2(q1, t1, q2, t2) == [x \in {q1, q2} |-> IF x = q1 THEN t1 ELSE t2]

\* patches as they are before Make builds their update values
PatchShapes ==
  { <<>>,
    << PAction(<<>>, U1(qRoot, M1(sB, I64(2)))) >>,
    << PAction(<<qA>>, NoUpdates) >>,
    << PAction(<<qRoot>>, U1(qRoot, M1(sA, I64(1)))) >>,
    << PAction(<<>>, U2(qA, M1(sB, M1(sA, I64(3))), qAB, M1(sB, I64(1)))) >>,
    << PAction(<<qA1>>, U1(qA0, M1(sA, TSlice(tInt64s, <<I64(4)>>)))) >>,
    << PAction(<<>>, U1(qRoot, M1(sB, M1(sA, I64(1))))),
       PAction(<<qBA>>, U1(qB, M1(sB, I64(2)))) >>,
    << PAction(<<qB, qA3>>, U1(qA, M1(sA, I64(1)))) >>,
    << PAction(<<>>, U2(qRoot, M1(sA, TSlice(tObjects, <<M1(sC, I64(5))>>)),
                        qA1, M1(sB, I64(6)))) >>,
    << PAction(<<>>, U1(qRoot, M1(sB, M1(sA, I64(1))))),
       PAction(<<qA>>, U2(qB, M1(sC, I64(2)), qBA, M1(sA, I64(1)))),
       PAction(<<qB>>, NoUpdates) >> }

DeleteQueries ==
  { qRoot, qA, qB, qAB, qA0, qA1, qA2, qA3, qABC, qA0B, qA00, qA01, qA10, qA1A,
    qA20, qA2B, qA2C }

UpdatesResult(q, first, rest) ==
  [h |-> rest.h, f |-> [x \in {q} |-> first.v] @@ rest.f]

\* the update values of one action built on the heap
RECURSIVE BuildUpdates(_, _, _), BuildUpdatesRest(_, _, _)
BuildUpdates(h, updates, queries) ==
  IF queries = <<>> THEN [h |-> h, f |-> <<>>]
  ELSE BuildUpdatesRest(updates, queries, Make(h, updates[Head(queries)]))

BuildUpdatesRest(updates, queries, first) ==
  UpdatesResult(Head(queries), first,
                BuildUpdates(first.h, updates, Tail(queries)))

PatchResult(deletes, u, rest) ==
  [h |-> rest.h, actions |-> <<PAction(deletes, u.f)>> \o rest.actions]

\* Patch.Add for every action of a shape
RECURSIVE BuildPatch(_, _), BuildPatchRest(_, _)
BuildPatch(h, shape) ==
  IF shape = <<>> THEN [h |-> h, actions |-> <<>>]
  ELSE BuildPatchRest(shape, BuildUpdates(h, Head(shape).Updates,
                                          SetToSeq(DOMAIN Head(shape).Updates)))

BuildPatchRest(shape, u) ==
  PatchResult(Head(shape).Deletes, u, BuildPatch(u.h, Tail(shape)))

\* the orders in which a range over a map with key set S can visit it
Perms(S) ==
  {f \in [1..Cardinality(S) -> S] :
     \A i, j \in 1..Cardinality(S) : i # j => f[i] # f[j]}

\* one iteration order for every action of a patch
RECURSIVE AllOrders(_)
AllOrders(actions) ==
  IF actions = <<>> THEN {<<>>}
  ELSE {<<o>> \o rest : o \in Perms(DOMAIN Head(actions).Updates),
                        rest \in AllOrders(Tail(actions))}

-----------------------------------------------------------------------------
(* The program: two inputs a and b, a patch, and a target r that is the    *)
(* zero Data until an operation assigns it.                                *)

MaxSteps == 2

\* the goroutines that read the shared Data a
NumThreads == 2

Threads == 1..NumThreads

\* the field lists of the calls of Get; Query is called with their join
sEmpty == <<>>
s0 == <<"0">>
s1 == <<"1">>
s3 == <<"3">>
sPlus1 == <<"+", "1">>
sMinus1 == <<"-", "1">>

GetFields ==
  { <<>>, <<sEmpty>>, <<sA>>, <<sB>>, <<sA, sB>>, <<sA, sC>>, <<sA, s0>>,
    <<sA, s3>>, <<sA, sPlus1>>, <<sA, sMinus1>>, <<sA, sB, s0>>, <<sA, s0, sB>>,
    <<sA, s1, s0>>, <<sA, s1, sA, sB>>, <<sB, sA>> }

\* a goroutine that is not inside a call
Idle ==
  [active |-> FALSE, kind |-> "none", fields |-> <<>>, v |-> Nil, w |-> {},
   pre |-> TEmpty, post |-> TEmpty]

\* a goroutine inside a call of Get or Query on a: the value it returns, the
\* map and array objects it wrote, the view of a before and after
InCall(kind, fields, pre, g) ==
  [active |-> TRUE, kind |-> kind, fields |-> fields, v |-> g.v, w |-> g.w,
   pre |-> pre, post |-> Abs(g.h, a)]

\* the empty string
NoText == [meta |-> <<>>, json |-> JNull]

InitState(ba, bb, bp) ==
  /\ heap = bp.h
  /\ a = ba.v
  /\ b = bb.v
  /\ patch = bp.actions
  /\ r = MapRef(0)
  /\ st = "ok"
  /\ op = "init"
  /\ log = <<>>
  /\ step = 0
  /\ wire = NoText
  /\ calls = [t \in Threads |-> Idle]

InitPatch(ba, bb, shape) ==
  \E bp \in {BuildPatch(bb.h, shape)} : InitState(ba, bb, bp)

InitB(ba, tb, shape) ==
  \E bb \in {Make(ba.h, tb)} : InitPatch(ba, bb, shape)

InitWith(ts, shapes) ==
  \E ta \in ts, tb \in ts, shape \in shapes :
    \E ba \in {Make(EmptyHeap, ta)} : InitB(ba, tb, shape)

Init == InitWith(Templates, PatchShapes)

Running == st # "panic" /\ step < MaxSteps

StatusOf(p) == IF p THEN "panic" ELSE "ok"

\* the views of the inputs of a call
Views(h, data) == [i \in 1..Len(data) |-> Abs(h, data[i])]

\* the arguments of the calls of Merge, by the names of the variables
MergeInputs ==
  { <<>>, <<"a">>, <<"a", "b">>, <<"b", "a">>, <<"a", "b", "a">>,
    <<"a", "b", "b">>, <<"b", "a", "b">>, <<"r", "a">>, <<"r", "b">> }

Operand(name) == CASE name = "a" -> a [] name = "b" -> b [] OTHER -> r

Operands(names) == [i \in 1..Len(names) |-> Operand(names[i])]

\* the event of a Merge keeps the names of its arguments in q
MergeDone(names, data, res) ==
  /\ heap' = res.h
  /\ r' = res.v
  /\ st' = StatusOf(res.p)
  /\ log' = <<Event(1, "merge", names, Views(heap, data), TEmpty,
                   Abs(res.h, res.v), StatusOf(res.p))>>

\* r = Merge(data...)
MergeAct ==
  /\ Running
  /\ \E names \in MergeInputs :
       MergeDone(names, Operands(names), Merge(heap, Operands(names)))
  /\ op' = "Merge"
  /\ step' = step + 1
  /\ UNCHANGED <<a, b, patch, wire, calls>>

MergeToDone(x, res) ==
  /\ heap' = res.h
  /\ st' = StatusOf(res.p)
  /\ log' = <<Event(1, "merge", <<>>, <<Abs(heap, x)>>, Abs(heap, r),
                   Abs(res.h, r), StatusOf(res.p))>>

\* MergeTo(&r, x)
MergeToAct ==
  /\ Running
  /\ \E x \in {a, b} : MergeToDone(x, MergeTo(heap, r, <<x>>))
  /\ op' = "MergeTo"
  /\ step' = step + 1
  /\ UNCHANGED <<a, b, r, patch, wire, calls>>

ApplyDone(res) ==
  /\ heap' = res.h
  /\ r' = res.d
  /\ st' = res.st
  /\ log' = res.log

\* patch.ApplyTo(&r)
ApplyToAct ==
  /\ Running
  /\ \E orders \in AllOrders(patch) :
       ApplyDone(PatchApplyTo(heap, r, patch, orders))
  /\ op' = "ApplyTo"
  /\ step' = step + 1
  /\ UNCHANGED <<a, b, patch, wire, calls>>

\* r, err = patch.Apply(a)
ApplyAct ==
  /\ Running
  /\ \E orders \in AllOrders(patch) : ApplyDone(Apply(heap, a, patch, orders))
  /\ op' = "Apply"
  /\ step' = step + 1
  /\ UNCHANGED <<a, b, patch, wire, calls>>

DeleteDone(q, pre, res) ==
  /\ heap' = res.h
  /\ r' = res.d
  /\ st' = StatusOf(res.p)
  /\ log' = <<Event(1, "delete", <<>>, <<q>>, pre, Abs(res.h, res.d),
                   StatusOf(res.p))>>

\* r.data.Delete(q)
DeleteAct ==
  /\ Running
  /\ \E q \in DeleteQueries : DeleteDone(q, Abs(heap, r), Delete(heap, r, <<q>>))
  /\ op' = "Delete"
  /\ step' = step + 1
  /\ UNCHANGED <<a, b, patch, wire, calls>>

\* wire = x.String()
StringAct ==
  /\ Running
  /\ \E x \in {a, b} :
       /\ wire' = String(heap, x)
       /\ log' = <<Event(1, "string", <<>>, <<>>, Abs(heap, x), Abs(heap, x), "ok")>>
  /\ st' = "ok"
  /\ op' = "String"
  /\ step' = step + 1
  /\ UNCHANGED <<heap, a, b, r, patch, calls>>

ParseDone(res) ==
  /\ heap' = res.h
  /\ r' = res.d
  /\ st' = res.st
  /\ log' = Append(log, Event(1, "parse", <<>>, <<>>, TEmpty, Abs(res.h, res.d),
                              res.st))

\* r, err = Parse(wire)
ParseAct ==
  /\ Running
  /\ ParseDone(Parse(heap, wire))
  /\ op' = "Parse"
  /\ step' = step + 1
  /\ UNCHANGED <<a, b, patch, wire, calls>>

Next ==
  \/ MergeAct
  \/ MergeToAct
  \/ ApplyToAct
  \/ ApplyAct
  \/ DeleteAct
  \/ StringAct
  \/ ParseAct

Spec == Init /\ [][Next]_vars

-----------------------------------------------------------------------------
(* The readers: goroutines that call Get and Query on the constructed a    *)
(* while nothing else is called on it.                                     *)

CallDone(t, kind, fields, g) ==
  /\ heap' = g.h
  /\ calls' = [calls EXCEPT ![t] = InCall(kind, fields, Abs(heap, a), g)]
  /\ op' = kind
  /\ st' = "ok"
  /\ log' = <<>>
  /\ step' = step + 1
  /\ UNCHANGED <<a, b, r, patch, wire>>

\* goroutine t calls a.Get(fields...)
GetAct ==
  /\ step < MaxSteps
  /\ \E t \in Threads, fields \in GetFields :
       /\ ~calls[t].active
       /\ CallDone(t, "Get", fields, Get(heap, a, fields))

\* goroutine t calls a.Query(strings.Join(fields, "."))
QueryAct ==
  /\ step < MaxSteps
  /\ \E t \in Threads, fields \in GetFields :
       /\ ~calls[t].active
       /\ CallDone(t, "Query", fields, Query(heap, a, Join(fields)))

\* the call of goroutine t returns
ReturnAct ==
  /\ \E t \in Threads :
       /\ calls[t].active
       /\ calls' = [calls EXCEPT ![t] = Idle]
  /\ UNCHANGED <<heap, a, b, r, patch, st, op, log, step, wire>>

ReadInit == InitWith(Templates, {<<>>})

ReadNext ==
  \/ GetAct
  \/ QueryAct
  \/ ReturnAct

ReadSpec == ReadInit /\ [][ReadNext]_vars

-----------------------------------------------------------------------------
(* MergeTo into a copy: the target r is made as the merge test makes it,   *)
(* Data{data: clone.Clone(x0.data).(RawData)}, and MergeTo(&r, x1, ..., xn) *)
(* is called on it.                                                        *)

\* the first inputs x0: a, b and the zero Data (whose map is r at the start)
CopyInputs == {"a", "b", "r"}

\* the remaining inputs x1..xn
MergeToInputs == { <<"a">>, <<"b">>, <<"a", "b">>, <<"b", "a">>, <<"b", "b">> }

CopyDone(name, c) ==
  /\ heap' = c.h
  /\ r' = c.v
  /\ log' = <<Event(1, "copy", <<name>>, <<>>, Abs(heap, Operand(name)),
                   Abs(c.h, c.v), "ok")>>

\* r = Data{data: clone.Clone(x0.data).(RawData)}
CopyAct ==
  /\ step = 0
  /\ \E name \in CopyInputs : CopyDone(name, Clone(heap, Operand(name)))
  /\ st' = "ok"
  /\ op' = "Copy"
  /\ step' = step + 1
  /\ UNCHANGED <<a, b, patch, wire, calls>>

MergeToAllDone(names, res) ==
  /\ heap' = res.h
  /\ st' = StatusOf(res.p)
  /\ log' = <<Event(1, "merge", names, Views(heap, Operands(names)),
                   Abs(heap, r), Abs(res.h, r), StatusOf(res.p))>>

\* MergeTo(&r, x1, ..., xn)
MergeToAllAct ==
  /\ op = "Copy"
  /\ \E names \in MergeToInputs :
       MergeToAllDone(names, MergeTo(heap, r, Operands(names)))
  /\ op' = "MergeTo"
  /\ step' = step + 1
  /\ UNCHANGED <<a, b, r, patch, wire, calls>>

CopyInit == InitWith(Templates, {<<>>})

CopyNext ==
  \/ CopyAct
  \/ MergeToAllAct

CopySpec == CopyInit /\ [][CopyNext]_vars

-----------------------------------------------------------------------------
(* Encoder: Make and Encoder.Encode on Go values.  A Go value is           *)
(* [k, name, v, et, e, f]: its kind, the name of its type when the type is *)
(* a named scalar type, its number, and for a slice the element type et    *)
(* and the elements e, for a map with string keys or a struct the entries  *)
(* f.  A value held in an interface is the value itself, the nil interface *)
(* is GoNil.  A reflect type is <<kind>>, <<kind, name>> for a named       *)
(* scalar type, <<"[]">> \o t for a slice of t.                            *)

GoVal(k, name, v, et, e, f) ==
  [k |-> k, name |-> name, v |-> v, et |-> et, e |-> e, f |-> f]

GoNil == GoVal("nil", "", 0, <<>>, <<>>, <<>>)
GoScalar(k, v) == GoVal(k, "", v, <<>>, <<>>, <<>>)
GoNamed(k, name, v) == GoVal(k, name, v, <<>>, <<>>, <<>>)
GoSlice(et, e) == GoVal("slice", "", 0, et, e, <<>>)
GoMap(f) == GoVal("map", "", 0, <<>>, <<>>, f)
GoStruct(f) == GoVal("struct", "", 0, <<>>, <<>>, f)
GoPtr(e) == GoVal("ptr", "", 0, <<>>, e, <<>>)
GoFunc == GoVal("func", "", 0, <<>>, <<>>, <<>>)
GoChan == GoVal("chan", "", 0, <<>>, <<>>, <<>>)
GoUnsafePointer == GoVal("unsafeptr", "", 0, <<>>, <<>>, <<>>)

IntKinds == {"int8", "int32", "int64"}
UintKinds == {"uint8", "uint64"}
FloatKinds == {"float32", "float64"}

typeOfInt64 == <<"int64">>
typeOfUint64 == <<"uint64">>
typeOfFloat64 == <<"float64">>
typeOfObject == <<"map">>
typeOfInterface == <<"iface">>
typeOfMapOfInterface == <<"map[string]iface">>

\* val.Type() of a scalar
GoType(val) == IF val.name = "" THEN <<val.k>> ELSE <<val.k, val.name>>

\* toLargestType(t): chosen by the kind of t
toLargestType(t) ==
  IF t[1] \in IntKinds THEN typeOfInt64
  ELSE IF t[1] \in UintKinds THEN typeOfUint64
  ELSE IF t[1] \in FloatKinds THEN typeOfFloat64
  ELSE IF t[1] = "struct" THEN typeOfObject
  ELSE t

\* a value of type t can be stored by reflect.Value.Set into an element of
\* type et
AssignableTo(t, et) ==
  \/ et = typeOfInterface
  \/ t = et
  \/ (t = typeOfObject /\ et = typeOfMapOfInterface)

Encoded(h, v, t) == [h |-> h, v |-> v, t |-> t, p |-> FALSE]
EncodedAs(res, t) == [h |-> res.h, v |-> res.v, t |-> t, p |-> FALSE]
EncodePanic(h) == [h |-> h, v |-> Invalid, t |-> NilType, p |-> TRUE]

\* val.Interface() of a bool or a string: the value keeps its type
Kept(val) == Scalar(IF val.name = "" THEN val.k ELSE val.name, val.v)

EncodedCons(first, rest) ==
  [h |-> rest.h, vs |-> <<first.v>> \o rest.vs, ts |-> <<first.t>> \o rest.ts,
   p |-> rest.p]

RECURSIVE encodeMapValue(_, _), encodeValues(_, _), encodeRest(_, _),
          encodeEntries(_, _, _), encodeSlice(_, _), encodeStored(_, _)
\* Encoder.encodeMapValue(val): the value stored and its type
encodeMapValue(h, val) ==
  CASE val.k = "nil" -> Encoded(h, Nil, NilType)
    [] val.k \in IntKinds -> Encoded(h, Scalar("int64", val.v), typeOfInt64)
    [] val.k \in UintKinds -> Encoded(h, Scalar("uint64", val.v), typeOfUint64)
    [] val.k \in FloatKinds -> Encoded(h, Scalar("float64", val.v), typeOfFloat64)
    [] val.k \in {"bool", "string"} -> Encoded(h, Kept(val), GoType(val))
    [] val.k = "slice" -> encodeSlice(toLargestType(val.et), encodeValues(h, val.e))
    [] val.k = "ptr" ->
         IF val.e = <<>> THEN Encoded(h, Nil, NilType) ELSE encodeMapValue(h, val.e[1])
    [] val.k \in {"map", "struct"} -> encodeEntries(h, val, SetToSeq(DOMAIN val.f))
    [] OTHER -> Encoded(h, Nil, NilType)

\* the elements of a slice or the entries of a map, one after the other
encodeValues(h, vals) ==
  IF vals = <<>> THEN [h |-> h, vs |-> <<>>, ts |-> <<>>, p |-> FALSE]
  ELSE encodeRest(encodeMapValue(h, Head(vals)), Tail(vals))

encodeRest(first, vals) ==
  IF first.p THEN [h |-> first.h, vs |-> <<>>, ts |-> <<>>, p |-> TRUE]
  ELSE EncodedCons(first, encodeValues(first.h, vals))

\* the Array/Slice case: values.Index(i).Set(reflect.ValueOf(v)) panics on
\* the zero Value that reflect.ValueOf(nil) is, and on a value that is not
\* assignable to the element type
encodeSlice(elemType, sub) ==
  IF sub.p \/ \E i \in 1..Len(sub.vs) :
               sub.vs[i] = Nil \/ ~AssignableTo(sub.ts[i], elemType)
  THEN EncodePanic(sub.h)
  ELSE EncodedAs(AllocSlice(elemType, sub), <<"[]">> \o elemType)

\* d[k] = enc.encodeMapValue(v) into a new RawData, for a map and for the
\* fields of a struct
encodeStored(keys, sub) ==
  IF sub.p THEN EncodePanic(sub.h)
  ELSE EncodedAs(AllocMap(keys, sub), typeOfObject)

encodeEntries(h, val, keys) ==
  encodeStored(keys, encodeValues(h, [i \in 1..Len(keys) |-> val.f[keys[i]]]))

\* Encoder.Encode(v) and Make(m): a map of length 0 encodes to nil, a value
\* that is neither a map nor a struct encodes to nil
RECURSIVE Encode(_, _)
Encode(h, val) ==
  IF val.k = "ptr" /\ val.e # <<>> THEN Encode(h, val.e[1])
  ELSE IF val.k = "struct" \/ (val.k = "map" /\ DOMAIN val.f # {})
  THEN encodeMapValue(h, val)
  ELSE Encoded(h, MapRef(0), typeOfObject)

\* the values under the key "a" of the maps given to Make
GoEntries ==
  { GoNil, GoFunc, GoChan, GoUnsafePointer,
    GoScalar("int8", 1), GoScalar("int32", 1), GoScalar("int64", 1),
    GoScalar("uint8", 1), GoScalar("uint64", 1),
    GoScalar("float32", 3), GoScalar("float64", 3),
    GoScalar("bool", 1), GoScalar("string", 1),
    GoNamed("int32", "MyInt", 1), GoNamed("float32", "MyFloat", 3),
    GoNamed("bool", "MyBool", 1), GoNamed("string", "MyString", 1),
    GoPtr(<<>>), GoPtr(<<GoScalar("int32", 1)>>),
    GoSlice(<<"int8">>, <<GoScalar("int8", 1), GoScalar("int8", 2)>>),
    GoSlice(<<"int64">>, <<GoScalar("int64", 1), GoScalar("int64", 2)>>),
    GoSlice(<<"uint8">>, <<GoScalar("uint8", 1)>>),
    GoSlice(<<"uint64">>, <<GoScalar("uint64", 1)>>),
    GoSlice(<<"float32">>, <<GoScalar("float32", 3)>>),
    GoSlice(<<"float64">>, <<GoScalar("float64", 3)>>),
    GoSlice(<<"int32", "MyInt">>, <<GoNamed("int32", "MyInt", 1)>>),
    GoSlice(<<"string">>, <<GoScalar("string", 1)>>),
    GoSlice(<<"string", "MyString">>, <<GoNamed("string", "MyString", 1)>>),
    GoSlice(<<"[]", "int8">>, <<GoSlice(<<"int8">>, <<GoScalar("int8", 1)>>)>>),
    GoSlice(<<"[]", "int64">>, <<GoSlice(<<"int64">>, <<GoScalar("int64", 1)>>)>>),
    GoSlice(typeOfInterface, <<GoScalar("int8", 1), GoScalar("string", 1)>>),
    GoSlice(typeOfInterface, <<GoScalar("int64", 1), GoScalar("string", 1)>>),
    GoSlice(typeOfInterface, <<GoScalar("int64", 1), GoNil>>),
    GoSlice(typeOfInterface, <<GoScalar("int64", 1), GoFunc>>),
    GoSlice(typeOfInterface, <<GoSlice(<<"int8">>, <<GoScalar("int8", 1)>>)>>),
    GoSlice(<<"func">>, <<>>), GoSlice(<<"func">>, <<GoFunc>>),
    GoSlice(<<"chan">>, <<GoChan>>),
    GoSlice(typeOfMapOfInterface, <<GoMap([x \in {sB} |-> GoScalar("int8", 1)])>>),
    GoSlice(<<"struct">>, <<GoStruct([x \in {sB} |-> GoFunc])>>),
    GoMap(<<>>),
    GoMap([x \in {sB} |-> GoScalar("int8", 1)]),
    GoMap([x \in {sB} |-> GoScalar("int64", 1)]),
    GoMap([x \in {sB} |-> GoFunc]),
    GoMap([x \in {sB} |-> GoNamed("bool", "MyBool", 0)]),
    GoStruct([x \in {sB} |-> GoChan]),
    GoStruct([x \in {sB, sC} |-> IF x = sB THEN GoUnsafePointer
                                 ELSE GoScalar("uint8", 2)]) }

\* the arguments of Make and Encode
GoValues ==
  {GoMap([x \in {sA} |-> e]) : e \in GoEntries}
    \cup {GoStruct([x \in {sA} |-> e]) : e \in {GoFunc, GoScalar("int32", 1)}}
    \cup {GoMap(<<>>), GoNil, GoPtr(<<GoMap([x \in {sA} |-> GoScalar("int8", 1)])>>)}

EncodeInit ==
  /\ heap = EmptyHeap
  /\ a = MapRef(0)
  /\ b = MapRef(0)
  /\ patch = <<>>
  /\ r = MapRef(0)
  /\ st = "ok"
  /\ op = "init"
  /\ log = <<>>
  /\ step = 0
  /\ wire = NoText
  /\ calls = [t \in Threads |-> Idle]

\* the event of a Make keeps its argument in ds
MakeDone(val, res) ==
  /\ heap' = res.h
  /\ r' = IF res.p THEN MapRef(0) ELSE res.v
  /\ st' = StatusOf(res.p)
  /\ log' = Append(log, Event(1, "make", <<>>, <<val>>, TEmpty,
                              IF res.p THEN TEmpty ELSE Abs(res.h, res.v),
                              StatusOf(res.p)))

\* r = Make(val)
MakeAct ==
  /\ Running
  /\ \E val \in GoValues : MakeDone(val, Encode(heap, val))
  /\ op' = "Make"
  /\ step' = step + 1
  /\ UNCHANGED <<a, b, patch, wire, calls>>

EncodeNext == MakeAct

EncodeSpec == EncodeInit /\ [][EncodeNext]_vars

-----------------------------------------------------------------------------
(* Parse of strings that a caller supplies: what precedes the JSON body    *)
(* and the body.  The bodies hold no ">".                                  *)

Metas ==
  { <<>>, <<"<">>, <<">">>, <<"<", ">">>, <<"j", "s", "o", "n", ">">>,
    <<"<", "j", "s", "o", "n">>, <<"<", "b", "s", "o", "n", ">">>,
    <<"<", "j", "s", "o", ">">>, <<"<", "j", "s", "o", "n", "x", ">">>,
    <<"<", "j", "s", "o", "n", ">">> }

Bodies ==
  { JInvalid, JNull, JBool(1), JNumber(2), JNumber(3), JString(1), JArray(<<>>),
    JArray(<<JNumber(2)>>), JArray(<<JObject(<<>>)>>), JObject(<<>>),
    JObject([x \in {sA} |-> JNumber(2)]),
    JObject([x \in {sA} |-> JArray(<<JNumber(2), JNumber(3)>>)]),
    JObject([x \in {sA, sB} |-> IF x = sA THEN JNull ELSE JString(1)]),
    JObject([x \in {sA} |-> JObject([y \in {sB} |-> JBool(0)])]),
    JObject([x \in {sA} |-> JArray(<<>>)]),
    JObject([x \in {sA} |-> JArray(<<JNumber(2), JString(1)>>)]),
    JObject([x \in {sA} |-> JArray(<<JArray(<<JNumber(2)>>), JArray(<<>>)>>)]),
    JObject([x \in {sA} |-> JArray(<<JNull>>)]),
    JObject([x \in {sA} |-> JArray(<<JNumber(2), JNull>>)]) }

Texts == {[meta |-> m, json |-> j] : m \in Metas, j \in Bodies}

ParseInit ==
  /\ heap = EmptyHeap
  /\ a = MapRef(0)
  /\ b = MapRef(0)
  /\ patch = <<>>
  /\ r = MapRef(0)
  /\ st = "ok"
  /\ op = "init"
  /\ log = <<>>
  /\ step = 0
  /\ wire \in Texts
  /\ calls = [t \in Threads |-> Idle]

ParseNext == ParseAct

ParseSpec == ParseInit /\ [][ParseNext]_vars

-----------------------------------------------------------------------------
(* Properties                                                              *)

Errors == {"err_query", "err_type"}

\* r is the result of a Merge and the step mutates it
MutatesMerged ==
  /\ op = "Merge"
  /\ st = "ok"
  /\ op' \in {"MergeTo", "ApplyTo", "Delete"}

\* C1: after r = Merge(a, b, ...), no later mutation of r (MergeTo into r,
\* Patch.ApplyTo on r, a delete at any path of r) changes the structure of
\* an input, whatever the shape of the inputs.
C1_MergeResultIndependent ==
  [][MutatesMerged => Abs(heap', a) = Abs(heap, a) /\ Abs(heap', b) = Abs(heap, b)]_vars

\* C2: Patch.Apply(d) leaves d structurally unchanged whether it succeeds
\* or returns an error, and on error the returned Data is the empty value.
C2_ApplyLeavesInput ==
  [][op' = "Apply" =>
       /\ Abs(heap', a) = Abs(heap, a)
       /\ (st' \in Errors => r' = MapRef(0))]_vars

\* Apply failed after its delete phase had already changed the copy
C2_Witness ==
  /\ op = "Apply"
  /\ st \in Errors
  /\ \E i \in 1..Len(log) : log[i].kind = "delete" /\ log[i].pre # log[i].post

\* ---- paths and trees as the properties read them ----

Missing == Tree("missing", 0, <<>>, <<>>, <<>>)

PatchOps == {"Apply", "ApplyTo"}

\* the segments of a path; the empty path names the value itself
Segments(q) == IF q = <<>> THEN <<>> ELSE Split(q)

\* f is a base-10 index inside the sequence t
InRange(t, f) ==
  /\ ParseInt(f).ok
  /\ ParseInt(f).n >= 0
  /\ ParseInt(f).n < Len(t.e)

\* the entry of the view t that the segments reach, or Missing
RECURSIVE Resolve(_, _)
Resolve(t, fields) ==
  IF fields = <<>> THEN t
  ELSE IF t.k = "map"
  THEN IF Head(fields) \in DOMAIN t.f
       THEN Resolve(t.f[Head(fields)], Tail(fields)) ELSE Missing
  ELSE IF t.k = "slice"
  THEN IF InRange(t, Head(fields))
       THEN Resolve(t.e[ParseInt(Head(fields)).n + 1], Tail(fields)) ELSE Missing
  ELSE Missing

Front(fields) == SubSeq(fields, 1, Len(fields) - 1)
Last(fields) == fields[Len(fields)]

\* the last segment of q is an in-range index of a sequence of t
IndexTarget(t, q) ==
  /\ q # <<>>
  /\ Resolve(t, Front(Split(q))).k = "slice"
  /\ InRange(Resolve(t, Front(Split(q))), Last(Split(q)))

\* p is a proper ancestor of the path q
IsAncestor(p, q) ==
  /\ Len(p) < Len(q)
  /\ SubSeq(q, 1, Len(p)) = p
  /\ (p = <<>> \/ q[Len(p) + 1] = ".")

UpdatesOf(lg, act) ==
  {i \in 1..Len(lg) : lg[i].kind = "update" /\ lg[i].act = act}

\* the updates of one action were applied in ascending order of their paths
Ascending(lg) ==
  \A i, j \in 1..Len(lg) :
    (lg[i].kind = "update" /\ lg[j].kind = "update" /\ lg[i].act = lg[j].act) =>
      /\ (i < j => StrLess(lg[i].q, lg[j].q))
      /\ (IsAncestor(lg[i].q, lg[j].q) => i < j)

SameOutcome(res) == res.st = st' /\ Abs(res.h, res.d) = Abs(heap', r')

\* C4: within one action the updates are applied in ascending lexicographic
\* order of their paths, an ancestor path before its descendants, and the
\* outcome is the same for every order in which the update map is iterated.
C4_UpdatesInPathOrder ==
  [][/\ op' \in PatchOps => Ascending(log')
     /\ op' = "ApplyTo" =>
          \A o \in AllOrders(patch) : SameOutcome(PatchApplyTo(heap, r, patch, o))
     /\ op' = "Apply" =>
          \A o \in AllOrders(patch) : SameOutcome(Apply(heap, a, patch, o))]_vars

\* an action updated "a" and then "a.b", and the second update succeeded
C4_Witness ==
  /\ op = "ApplyTo"
  /\ st = "ok"
  /\ \E i, j \in 1..Len(log) :
       /\ i < j
       /\ log[i].kind = "update" /\ log[i].q = qA
       /\ log[j].kind = "update" /\ log[j].q = qAB
       /\ log[j].act = log[i].act
       /\ log[j].pre # log[j].post

\* C5: the actions of a patch are applied in the order they were added; in
\* each action the deletes come before every update, and an action is
\* complete (its deletes, then all its updates) before the next one starts.
C5_ActionsInOrder ==
  op \in PatchOps =>
    /\ \A i \in 1..Len(log) :
         /\ log[i].act \in 1..Len(patch)
         /\ log[i].kind = "delete" =>
              /\ log[i].ds = patch[log[i].act].Deletes
              /\ (IF i = 1 THEN log[i].act = 1
                  ELSE /\ log[i].act = log[i - 1].act + 1
                       /\ log[i - 1].res = "ok"
                       /\ Cardinality(UpdatesOf(log, log[i - 1].act)) =
                            Cardinality(DOMAIN patch[log[i - 1].act].Updates))
         /\ log[i].kind = "update" =>
              /\ i > 1
              /\ log[i - 1].act = log[i].act
              /\ log[i].q \in DOMAIN patch[log[i].act].Updates
              /\ log[i].pre = log[i - 1].post
    /\ st = "ok" =>
         /\ (patch = <<>>) = (log = <<>>)
         /\ \A k \in 1..Len(patch) :
              /\ \E i \in 1..Len(log) : log[i].kind = "delete" /\ log[i].act = k
              /\ Cardinality(UpdatesOf(log, k)) = Cardinality(DOMAIN patch[k].Updates)

\* both actions of a two-action patch ran, the second one deleting and
\* then updating
C5_Witness ==
  /\ op = "ApplyTo"
  /\ st = "ok"
  /\ Len(patch) = 2
  /\ UpdatesOf(log, 1) # {}
  /\ UpdatesOf(log, 2) # {}
  /\ \E i \in 1..Len(log) :
       log[i].kind = "delete" /\ log[i].act = 2 /\ log[i].pre # log[i].post

\* C6: an update path that reaches no value fails with the invalid-query
\* error, one that reaches a scalar or a sequence fails with the
\* unsupported-merge-target error, and a failed update merges nothing: it is
\* the last step and leaves the target as it found it.  (A path that reaches
\* a Null entry fails with one of the two errors.)
C6_UpdateErrors ==
  op \in PatchOps =>
    \A i \in 1..Len(log) :
      log[i].kind = "update" =>
        /\ Resolve(log[i].pre, Segments(log[i].q)).k = "missing" =>
             log[i].res = "err_query"
        /\ Resolve(log[i].pre, Segments(log[i].q)).k = "nil" =>
             log[i].res \in Errors
        /\ Resolve(log[i].pre, Segments(log[i].q)).k \in ScalarKinds \cup {"slice"} =>
             log[i].res = "err_type"
        /\ log[i].res \in Errors =>
             /\ i = Len(log)
             /\ st = log[i].res
             /\ log[i].post = log[i].pre
             /\ op = "ApplyTo" => Abs(heap, r) = log[i].pre

\* an update failed on a missing path after an earlier step of the same
\* application had changed the target
C6_Witness ==
  /\ op = "ApplyTo"
  /\ st = "err_query"
  /\ Len(log) >= 2
  /\ log[Len(log)].res = "err_query"
  /\ \E i \in 1..Len(log) - 1 : log[i].pre # log[i].post

\* the path of a single delete (the operation Delete of the program)
DeletedPath == log[1].ds[1]

\* deleting the same path once more changes nothing
DeleteAgainSame(d2) == ~d2.p /\ Abs(d2.h, d2.d) = Abs(heap, r)

NoneResolves(t, ds) ==
  \A i \in 1..Len(ds) :
    ds[i] # <<>> /\ Resolve(t, Segments(ds[i])).k = "missing"

\* C8: deleting paths that do not resolve (a missing key, an out-of-range or
\* non-numeric index, a missing intermediate segment, a scalar with segments
\* left) leaves the value unchanged and raises nothing, in Delete and in the
\* delete phase of a patch.
C8_DeleteMissingUnchanged ==
  \A i \in 1..Len(log) :
    (log[i].kind = "delete" /\ NoneResolves(log[i].pre, log[i].ds)) =>
      log[i].res = "ok" /\ log[i].post = log[i].pre

\* the view t with element number n + 1 of the sequence at fields removed
RECURSIVE RemoveAt(_, _)
RemoveAt(t, fields) ==
  IF Len(fields) = 1
  THEN TSlice(t.et, [i \in 1..Len(t.e) - 1 |->
                       IF i <= ParseInt(fields[1]).n THEN t.e[i] ELSE t.e[i + 1]])
  ELSE IF t.k = "map"
  THEN TMap([key \in DOMAIN t.f |->
               IF key = Head(fields) THEN RemoveAt(t.f[key], Tail(fields))
               ELSE t.f[key]])
  ELSE TSlice(t.et, [i \in 1..Len(t.e) |->
                       IF i = ParseInt(Head(fields)).n + 1
                       THEN RemoveAt(t.e[i], Tail(fields)) ELSE t.e[i]])

\* C9: deleting an in-range index i of a sequence removes exactly element i
\* and keeps the others in order, at the first, a middle and the last
\* position, under a mapping key and inside another sequence.
C9_DeleteIndexRemovesElement ==
  (op = "Delete" /\ IndexTarget(log[1].pre, DeletedPath)) =>
    /\ st = "ok"
    /\ log[1].post = RemoveAt(log[1].pre, Split(DeletedPath))

\* the merge rules on views: acc is the accumulator's entry or Missing
RECURSIVE RuleValue(_, _), RuleUnion(_, _)
RuleValue(acc, in) ==
  IF in.k = "nil" THEN acc
  ELSE IF acc.k = "map" /\ in.k = "map" THEN TMap(RuleUnion(acc.f, in.f))
  ELSE IF acc.k = "slice" /\ in.k = "slice" /\ acc.et = in.et
  THEN TSlice(acc.et, [i \in 1..Len(acc.e) + Len(in.e) |->
                         IF i <= Len(acc.e) THEN acc.e[i] ELSE in.e[i - Len(acc.e)]])
  ELSE in

RuleEntry(f, g, key) ==
  IF key \notin DOMAIN g THEN f[key]
  ELSE RuleValue(IF key \in DOMAIN f THEN f[key] ELSE Missing, g[key])

RuleUnion(f, g) ==
  [key \in {x \in DOMAIN f \cup DOMAIN g : RuleEntry(f, g, x).k # "missing"} |->
     RuleEntry(f, g, key)]

\* the inputs folded from the left into the empty value
RECURSIVE RuleMerge(_, _)
RuleMerge(acc, ts) ==
  IF ts = <<>> THEN acc ELSE RuleMerge(RuleValue(acc, Head(ts)), Tail(ts))

\* C10: Merge folds its inputs left to right by the rules: no entry in the
\* accumulator takes the incoming value, two mappings merge key by key, two
\* sequences of one element type concatenate, anything else is replaced by
\* the incoming value; Merge() is the empty value.
C10_MergeRules ==
  op = "Merge" =>
    /\ st = "ok"
    /\ Abs(heap, r) = RuleMerge(TEmpty, log[1].ds)

\* C3: for every Data v that Make can produce, Parse(v.String()) succeeds
\* and gives a Data structurally equal to v, every entry keeping its kind.
C3_RoundTrip ==
  (op = "Parse" /\ Len(log) = 2 /\ log[1].kind = "string") =>
    /\ st = "ok"
    /\ Abs(heap, r) = log[1].pre

\* ---- Null incoming values ----

\* the entry of the view t under the keys p through mappings, or Missing
RECURSIVE EntryAt(_, _)
EntryAt(t, p) ==
  IF p = <<>> THEN t
  ELSE IF t.k = "map" /\ Head(p) \in DOMAIN t.f
  THEN EntryAt(t.f[Head(p)], Tail(p))
  ELSE Missing

\* the key paths of the view t, through mappings, that hold Null
RECURSIVE NullKeys(_)
NullKeys(t) ==
  IF t.k # "map" THEN {}
  ELSE UNION {IF t.f[key].k = "nil" THEN {<<key>>}
              ELSE {<<key>> \o p : p \in NullKeys(t.f[key])} : key \in DOMAIN t.f}

\* a merge of one incoming value into an accumulator: r = Merge(x) merges
\* into the empty value, MergeTo(&r, x) into r
MergedOne == op \in {"Merge", "MergeTo"} /\ st = "ok" /\ Len(log[1].ds) = 1

\* every mapping of the incoming value above p meets a mapping of the
\* accumulator, so the merge reaches p key by key
KeyByKey(acc, p) ==
  \A i \in 1..Len(p) - 1 : EntryAt(acc, SubSeq(p, 1, i)).k = "map"

\* C11 as stated: for every key at every depth where the incoming value is
\* Null, the merge result at that key is exactly what the accumulator held
\* before: the existing value, or no entry at all.
C11_NullEveryDepth ==
  MergedOne =>
    \A p \in NullKeys(log[1].ds[1]) :
      EntryAt(log[1].post, p) = EntryAt(log[1].pre, p)

\* C11: a Null incoming value never overwrites, clears or creates an entry
\* at the top level or inside mappings that are merged key by key: there
\* the result at that key is exactly what the accumulator held before.
C11_NullKeyByKey ==
  MergedOne =>
    \A p \in NullKeys(log[1].ds[1]) :
      KeyByKey(log[1].pre, p) => EntryAt(log[1].post, p) = EntryAt(log[1].pre, p)

\* a nested Null met an existing entry of the accumulator and left it
C11_Witness ==
  /\ op = "MergeTo"
  /\ st = "ok"
  /\ \E p \in NullKeys(log[1].ds[1]) :
       /\ Len(p) = 2
       /\ KeyByKey(log[1].pre, p)
       /\ EntryAt(log[1].pre, p).k = "int64"
       /\ EntryAt(log[1].post, p) = EntryAt(log[1].pre, p)

\* ---- associativity ----

\* two views whose overlapping keys hold values of one type
RECURSIVE Compatible(_, _)
Compatible(x, y) ==
  /\ x.k = y.k
  /\ x.et = y.et
  /\ x.k = "map" =>
       \A key \in DOMAIN x.f \cap DOMAIN y.f : Compatible(x.f[key], y.f[key])

\* r = Merge(x, y) is followed by r = Merge(r, z)
MergeOfMerge ==
  /\ op = "Merge"
  /\ st = "ok"
  /\ log[1].q \in {<<"a", "b">>, <<"b", "a">>}
  /\ op' = "Merge"
  /\ log'[1].q \in {<<"r", "a">>, <<"r", "b">>}

\* the views of x, y and z of such a pair of steps
Triple == <<Abs(heap, Operand(log[1].q[1])), Abs(heap, Operand(log[1].q[2])),
            Abs(heap, Operand(log'[1].q[2]))>>

CompatibleAll(ts) == \A i, j \in 1..Len(ts) : Compatible(ts[i], ts[j])

\* the result of the single call Merge(x, y, z) from the same state
SameAsFlat(m) == st' = StatusOf(m.p) /\ Abs(heap', r') = Abs(m.h, m.v)

\* the view of the result of a call that did not panic
ViewOf(m) == IF m.p THEN Missing ELSE Abs(m.h, m.v)

Flat == Merge(heap, Operands(log[1].q \o <<log'[1].q[2]>>))

\* C12: for all a, b, c whose overlapping keys are disjoint or hold values
\* of one type, Merge(Merge(a, b), c) succeeds and is structurally equal to
\* Merge(a, b, c).
C12_MergeAssociative ==
  [][(MergeOfMerge /\ CompatibleAll(Triple)) => (st' = "ok" /\ SameAsFlat(Flat))]_vars

\* the same without the condition on the keys
C12_AssociativeAlways ==
  [][MergeOfMerge => SameAsFlat(Flat)]_vars

\* Merge(Merge(a, b), a) was computed on inputs that hold sequences of one
\* type under one key, and it differs from Merge(a, b)
C12_Witness ==
  /\ op = "Merge"
  /\ st = "ok"
  /\ log[1].q = <<"r", "a">>
  /\ log[1].ds[1] = ViewOf(Merge(heap, <<a, b>>))
  /\ CompatibleAll(<<Abs(heap, a), Abs(heap, b)>>)
  /\ EntryAt(Abs(heap, a), <<sA>>).k = "slice"
  /\ EntryAt(Abs(heap, b), <<sA>>).k = "slice"
  /\ log[1].post # log[1].ds[1]

\* ---- readers ----

Active == {t \in Threads : calls[t].active}

\* two goroutines are inside calls that write one map or array object
WriteRace ==
  \E t1, t2 \in Active : t1 # t2 /\ calls[t1].w \cap calls[t2].w # {}

\* the view of a is the same after every call as before it
ReadsKeepView == \A t \in Active : calls[t].post = calls[t].pre

\* C13: a Get or Query of any path on a Data that nobody mutates writes to
\* none of its mappings or sequences, so no two concurrent calls race, and
\* the value is structurally the same before and after every call.
C13_ReadsDoNotWrite ==
  /\ \A t \in Active : calls[t].w = {}
  /\ ~WriteRace
  /\ ReadsKeepView

\* what the resolution rules give for the view t: the whole value for no
\* segment, nil where the segments do not resolve
Resolved(t, fields) ==
  IF Resolve(t, fields) = Missing THEN TNil ELSE Resolve(t, fields)

\* C14: Get resolves the segments left to right: a mapping takes the
\* segment verbatim as the key, a sequence takes it as a base-10 index that
\* is at least 0 and below the length; a missing key, a bad index or a
\* scalar met while segments remain gives nil; no segment gives the value.
C14_GetResolves ==
  \A t \in Active :
    calls[t].kind = "Get" =>
      Abs(heap, calls[t].v) = Resolved(calls[t].pre, calls[t].fields)

\* a Get of three or more segments went through a sequence and found a
\* number
C14_Witness ==
  \E t \in Active :
    /\ calls[t].kind = "Get"
    /\ Len(calls[t].fields) >= 3
    /\ Resolve(calls[t].pre, SubSeq(calls[t].fields, 1, 1)).k = "slice"
    /\ calls[t].v.k = "int64"

\* a Get and a Query of the join of the same fields return the same value
SameAnswer(t1, t2) ==
  ( /\ calls[t1].kind = "Get"
    /\ calls[t2].kind = "Query"
    /\ calls[t1].fields = calls[t2].fields ) => calls[t1].v = calls[t2].v

\* C15 as stated: for every list of fields without a ".", of any length,
\* d.Query(fields joined with ".") returns what d.Get(fields...) returns.
C15_QueryIsGet == \A t1, t2 \in Active : SameAnswer(t1, t2)

\* C15: the same for every list of fields other than the list of the one
\* empty field, whose join is the empty query that names the whole value.
C15_QueryIsGetButEmptyField ==
  \A t1, t2 \in Active : calls[t1].fields # <<sEmpty>> => SameAnswer(t1, t2)

\* a Get and a Query of three segments both found the same mapping entry
C15_Witness ==
  \E t1, t2 \in Active :
    /\ calls[t1].kind = "Get"
    /\ calls[t2].kind = "Query"
    /\ calls[t1].fields = calls[t2].fields
    /\ Len(calls[t1].fields) = 3
    /\ calls[t1].v # Nil
    /\ calls[t2].v = calls[t1].v

\* ---- Parse errors ----

ParseErrors == {"err_format", "err_datatype", "err_json", "err_object"}

\* the position of the first ">" of s, 0 when there is none
FirstClose(s) ==
  IF \E i \in 1..Len(s) : s[i] = ">"
  THEN CHOOSE i \in 1..Len(s) : s[i] = ">" /\ \A j \in 1..(i - 1) : s[j] # ">"
  ELSE 0

\* the string w is one of those the claim names
Malformed(w) ==
  \/ w.meta = <<>>
  \/ w.meta[1] # "<"
  \/ FirstClose(w.meta) = 0
  \/ SubSeq(w.meta, 2, FirstClose(w.meta) - 1) # <<"j", "s", "o", "n">>
  \/ w.json.k = "invalid"
  \/ w.json.k # "object"

\* C16: Parse returns an error and the empty Data when the string has no
\* leading "<", has no closing ">", carries a type tag other than json, has
\* a body that is not valid JSON or a body whose top level is not an object;
\* a valid JSON text without the marker is an error too.
C16_ParseErrors ==
  (op = "Parse" /\ Malformed(wire)) => (st \in ParseErrors /\ r = MapRef(0))

\* Parse refused a well-marked valid JSON text whose top level is an array
C16_Witness ==
  /\ op = "Parse"
  /\ wire.meta = <<"<", "j", "s", "o", "n", ">">>
  /\ wire.json.k = "array"
  /\ st = "err_object"
  /\ r = MapRef(0)

\* ---- patches and their update values ----

\* the map and array objects that can be reached from the value v
RECURSIVE Reach(_, _)
Reach(h, v) ==
  CASE v.k = "map" /\ v.id # 0 ->
         {MapObj(v.id)} \cup UNION {Reach(h, h.m[v.id][key]) : key \in DOMAIN h.m[v.id]}
    [] v.k = "slice" ->
         {ArrObj(v.id)} \cup UNION {Reach(h, h.s[v.id][i]) : i \in 1..v.len}
    [] OTHER -> {}

\* the update values that the patch holds
UpdateValues ==
  UNION {{patch[i].Updates[q] : q \in DOMAIN patch[i].Updates} : i \in 1..Len(patch)}

\* the views of the update values of every action
UpdateViews(h) ==
  [i \in 1..Len(patch) |->
     [q \in DOMAIN patch[i].Updates |-> Abs(h, patch[i].Updates[q])]]

\* C17: after Apply or ApplyTo the result shares no mapping and no sequence
\* with an update value held by the patch.
C17_PatchNotAliased ==
  (op \in PatchOps /\ st = "ok") =>
    \A u \in UpdateValues : Reach(heap, r) \cap Reach(heap, u) = {}

\* a mutation of the result of a patch leaves the update values as they were
PatchValuesKept ==
  [][(op \in PatchOps /\ st = "ok" /\ op' \in {"MergeTo", "Delete"}) =>
       UpdateViews(heap') = UpdateViews(heap)]_vars

\* ---- construction from Go values ----

NumberKinds == IntKinds \cup UintKinds \cup FloatKinds

\* the calls of Make so far
Makes == {i \in 1..Len(log) : log[i].kind = "make"}

\* a type made of numbers of any width, sequences and interfaces
NumericType(t) ==
  /\ t # <<>>
  /\ \A i \in 1..Len(t) : t[i] \in NumberKinds \cup {"[]", "iface"}

\* a Go value whose leaves are integers and floats of unnamed types
RECURSIVE Numeric(_)
Numeric(val) ==
  CASE val.k \in NumberKinds -> val.name = ""
    [] val.k = "slice" ->
         NumericType(val.et) /\ \A i \in 1..Len(val.e) : Numeric(val.e[i])
    [] val.k = "map" ->
         DOMAIN val.f # {} /\ \A key \in DOMAIN val.f : Numeric(val.f[key])
    [] OTHER -> FALSE

\* the widest type of each number kind
WideKind(k) ==
  IF k \in IntKinds THEN "int64"
  ELSE IF k \in UintKinds THEN "uint64"
  ELSE IF k \in FloatKinds THEN "float64"
  ELSE k

\* the Data a numeric Go value stands for: the same numbers, every one at
\* the widest type of its kind
RECURSIVE Widest(_)
Widest(val) ==
  CASE val.k = "slice" ->
         TSlice([i \in 1..Len(val.et) |-> WideKind(val.et[i])],
                [i \in 1..Len(val.e) |-> Widest(val.e[i])])
    [] val.k = "map" -> TMap([key \in DOMAIN val.f |-> Widest(val.f[key])])
    [] OTHER -> TScalar(WideKind(val.k), val.v)

\* C18: Make on integer or float sources of different widths holding the
\* same numbers gives structurally equal Data, for entries and for sequence
\* elements: every signed integer is stored as Int64, every unsigned one as
\* UInt64, every float as Float64.
C18_WidthIdempotent ==
  /\ \A i \in Makes :
       Numeric(log[i].ds[1]) =>
         (log[i].res = "ok" /\ log[i].post = Widest(log[i].ds[1]))
  /\ \A i, j \in Makes :
       ( /\ Numeric(log[i].ds[1])
         /\ Numeric(log[j].ds[1])
         /\ Widest(log[i].ds[1]) = Widest(log[j].ds[1]) ) =>
         (log[i].res = "ok" /\ log[j].res = "ok" /\ log[i].post = log[j].post)

PlainKinds == {"nil", "bool", "int64", "uint64", "float64", "string"}

\* a type that names no named scalar type
PlainType(t) ==
  \A i \in 1..Len(t) :
    t[i] \in PlainKinds \cup {"[]", "map", "iface", "map[string]iface", "func", "chan"}

\* a view in which every scalar is of a canonical primitive type
RECURSIVE PlainView(_)
PlainView(t) ==
  CASE t.k = "map" -> \A key \in DOMAIN t.f : PlainView(t.f[key])
    [] t.k = "slice" -> PlainType(t.et) /\ \A i \in 1..Len(t.e) : PlainView(t.e[i])
    [] OTHER -> t.k \in PlainKinds

\* C19: Make stores a value of a named type whose kind is a primitive
\* scalar as the canonical primitive kind, as a mapping entry and as a
\* sequence element: no named scalar type is left anywhere in a Data.
C19_NoNamedScalar ==
  \A i \in Makes : log[i].res = "ok" => PlainView(log[i].post)

\* the segment that names element i of a sequence
IndexField(i) ==
  CASE i = 1 -> <<"0">> [] i = 2 -> <<"1">> [] i = 3 -> <<"2">> [] OTHER -> <<"3">>

\* the paths of the functions, channels and unsafe pointers of a Go value
RECURSIVE NotData(_)
NotData(val) ==
  CASE val.k \in {"func", "chan", "unsafeptr"} -> {<<>>}
    [] val.k \in {"map", "struct"} ->
         UNION {{<<key>> \o p : p \in NotData(val.f[key])} : key \in DOMAIN val.f}
    [] val.k \in {"slice", "ptr"} ->
         UNION {{<<IndexField(i)>> \o p : p \in NotData(val.e[i])} :
                  i \in 1..Len(val.e)}
    [] OTHER -> {}

\* C20: a function, channel or unsafe pointer met at any depth by Make, as
\* a struct field, a mapping entry or a sequence element, becomes Null at
\* that position and the rest of the tree is constructed.
C20_NotDataBecomesNull ==
  \A i \in Makes :
    /\ NotData(log[i].ds[1]) # {} => log[i].res = "ok"
    /\ \A p \in NotData(log[i].ds[1]) : Resolve(log[i].post, p) = TNil

\* the same for struct fields and mapping entries alone
NotDataInEntries ==
  \A i \in Makes :
    \A p \in NotData(log[i].ds[1]) :
      (\A k \in 1..Len(p) : ~IsDigit(p[k][1])) =>
        (log[i].res = "ok" /\ Resolve(log[i].post, p) = TNil)

\* ---- MergeTo into a copy ----

\* MergeTo(&r, x1, ..., xn) is called on r, a deep copy of x0
MergeToCopy == op = "Copy" /\ op' = "MergeTo"

\* Merge(x0, x1, ..., xn) from the state in which MergeTo is called
MergeAll == Merge(heap, <<Operand(log[1].q[1])>> \o Operands(log'[1].q))

\* the call left the target r structurally equal to the Data m
TargetEquals(m) == ~m.p => (st' = "ok" /\ Abs(heap', r') = Abs(m.h, m.v))

\* x0 is a non-nil map without a Null entry at its top level
PlainTop(x0) == x0.id # 0 /\ \A key \in DOMAIN heap.m[x0.id] : heap.m[x0.id][key] # Nil

\* C21: for every x0 and x1..xn (n >= 1), MergeTo on a target that is a
\* deep copy of x0, with x1..xn, leaves the target structurally equal to
\* Merge(x0, x1, ..., xn); also when x0 is the empty Data.
C21_MergeToIsMerge ==
  [][MergeToCopy => TargetEquals(MergeAll)]_vars

\* the same for the x0 that are not empty and hold no Null at the top level
MergeToIsMergePlainTop ==
  [][(MergeToCopy /\ PlainTop(Operand(log[1].q[1]))) => TargetEquals(MergeAll)]_vars

\* ---- a failed ApplyTo ----

\* the first event of the log that reports one of the two errors
FailedAt(lg) ==
  CHOOSE i \in 1..Len(lg) :
    lg[i].res \in Errors /\ \A j \in 1..(i - 1) : lg[j].res \notin Errors

\* the updates of an action at the paths that sort before q
UpdatesBefore(updates, q) ==
  [x \in {p \in DOMAIN updates : StrLess(p, q)} |-> updates[x]]

\* the patch up to update q of action k: the actions before k, the deletes
\* of action k and its updates at the paths that sort before q
PatchUpTo(k, q) ==
  [i \in 1..k |->
     IF i < k THEN patch[i]
     ELSE PAction(patch[k].Deletes, UpdatesBefore(patch[k].Updates, q))]

\* the step left the target as the successful application res leaves it
LeftAs(res) == res.st = "ok" /\ Abs(res.h, res.d) = Abs(heap', r')

HoldsUpTo(p) == \A o \in AllOrders(p) : LeftAs(PatchApplyTo(heap, r, p, o))

FailedApplyTo == op' = "ApplyTo" /\ st' \in Errors

\* C22: when ApplyTo fails at update path q of action k, the target holds
\* exactly the full effect of the actions before k, all deletes of action k
\* and the updates of action k at the paths that sort before q; the update
\* at q, the updates that sort after q and all later actions are not applied.
C22_FailedApplyToHolds ==
  [][FailedApplyTo =>
       HoldsUpTo(PatchUpTo(log'[FailedAt(log')].act, log'[FailedAt(log')].q))]_vars

\* ApplyTo failed at the second update of the second action of three: the
\* first action, the delete and the first update had each changed the target
C22_Witness ==
  /\ op = "ApplyTo"
  /\ st = "err_type"
  /\ Len(patch) = 3
  /\ Len(log) = 5
  /\ log[5].act = 2
  /\ log[5].q = qBA
  /\ log[2].pre # log[2].post
  /\ log[3].pre # log[3].post
  /\ log[4].pre # log[4].post

\* ---- completion of Apply and ApplyTo ----

\* the action deletes the zero-length path and updates at the zero-length path
ReplacesRoot(action) ==
  /\ action.Deletes = <<qRoot>>
  /\ DOMAIN action.Updates = {qRoot}

\* C23: for every patch and every target, Apply and ApplyTo complete and
\* return success or one of the two patch errors, also when an update path
\* resolves to an empty mapping; an action with deletes [""] and updates
\* {"": u} leaves the target structurally equal to u.
C23_ApplyCompletes ==
  op \in PatchOps =>
    /\ st \in {"ok"} \cup Errors
    /\ (Len(patch) = 1 /\ ReplacesRoot(patch[1])) =>
         Abs(heap, r) = Abs(heap, patch[1].Updates[qRoot])

\* ---- totality of Parse ----

\* the string carries the json marker and its body is a JSON object
WellFormed(w) ==
  /\ w.meta = dataMetaBegin \o dataTypeJSON \o dataMetaEnd
  /\ w.json.k = "object"

\* C24: Parse and ParseJSON are total: for every string they return a Data
\* or an error, and every valid JSON object body decodes successfully
\* whatever its arrays contain (null elements, mixed kinds, nested arrays,
\* empty arrays).
C24_ParseTotal ==
  op = "Parse" =>
    /\ st \in {"ok"} \cup ParseErrors
    /\ WellFormed(wire) => st = "ok"

\* the JSON value holds no array with a null element
RECURSIVE NoNullElement(_)
NoNullElement(j) ==
  /\ j.k = "array" => \A i \in 1..Len(j.e) : j.e[i].k # "null" /\ NoNullElement(j.e[i])
  /\ j.k = "object" => \A key \in DOMAIN j.f : NoNullElement(j.f[key])

\* the same for the bodies whose arrays hold no null
ParseTotalOffNull ==
  (op = "Parse" /\ NoNullElement(wire.json)) =>
    /\ st \in {"ok"} \cup ParseErrors
    /\ WellFormed(wire) => st = "ok"

\* ---- Clone ----

\* r is d.Clone() for d the input a or b: Clone is Merge of the one value
Cloned == op = "Merge" /\ Len(log[1].q) = 1

\* r is patch.Apply(a) for a patch without actions
AppliedNothing == op = "Apply" /\ patch = <<>>

\* C25: d.Clone() is structurally equal to d, keys whose value is Null
\* included, and shares no mapping or sequence with d; hence Apply of a
\* patch with no deletes and no updates returns a value equal to d.
C25_CloneEqual ==
  /\ Cloned =>
       /\ st = "ok"
       /\ Abs(heap, r) = Abs(heap, Operand(log[1].q[1]))
       /\ Reach(heap, r) \cap Reach(heap, Operand(log[1].q[1])) = {}
  /\ AppliedNothing =>
       /\ st = "ok"
       /\ Abs(heap, r) = Abs(heap, a)
       /\ Reach(heap, r) \cap Reach(heap, a) = {}

\* the top-level keys of the view t that do not hold Null
NonNullTop(t) == [key \in {x \in DOMAIN t.f : t.f[x].k # "nil"} |-> t.f[key]]

\* the same up to the Null entries of the top level
CloneEqualOffNull ==
  /\ Cloned =>
       /\ st = "ok"
       /\ Abs(heap, r).f = NonNullTop(Abs(heap, Operand(log[1].q[1])))
       /\ Reach(heap, r) \cap Reach(heap, Operand(log[1].q[1])) = {}
  /\ AppliedNothing =>
       /\ st = "ok"
       /\ Abs(heap, r).f = NonNullTop(Abs(heap, a))
       /\ Reach(heap, r) \cap Reach(heap, a) = {}

=============================================================================
